---- MODULE Spec2Model ----
(***************************************************************************)
(* tudiff: dual-pane directory comparison.  Model of the comparison        *)
(* pipeline (src/compare.rs) and of the interactive application state      *)
(* machine with its background refresh worker (src/app.rs).                *)
(*                                                                         *)
(* Encoding of text.  A path component is one OS-string unit, written as a *)
(* number: an ASCII byte (66 'B', 97 'a', ...), the byte 255 (which alone  *)
(* is not valid UTF-8) or 65533 (the UTF-8 encoding of U+FFFD, which is    *)
(* what to_string_lossy produces for 255).  Numeric order on these codes   *)
(* is the byte order the standard library uses for OsStr and str.          *)
(* A Rust String is a sequence of such codes; a PathBuf is a sequence of   *)
(* components.                                                             *)
(***************************************************************************)
EXTENDS Integers, Sequences, FiniteSets, TLC

\* Option::None for Option<u64>, Option<usize> and Option<SystemTime>
NoneVal == -1

\* ------------------------------------------------------------------------
\* Bounds of the model
\* ------------------------------------------------------------------------
\* external filesystem changes per run
MaxFsChanges == 1
\* refresh workers spawned per run
MaxRefreshes == 2
\* copy requests executed per run
MaxCopies == 1
\* key and mouse events handled per run
MaxEvents == 4

\* ------------------------------------------------------------------------
\* Text helpers
\* ------------------------------------------------------------------------
InvalidByte == 255
ReplacementChar == 65533

IsValidUtf8(c) == c # InvalidByte

\* OsStr::to_string_lossy on a one-unit component
to_string_lossy(c) == IF IsValidUtf8(c) THEN <<c>> ELSE <<ReplacementChar>>

\* OsStr::to_str().unwrap_or("")
to_str_or_empty(c) == IF IsValidUtf8(c) THEN <<c>> ELSE <<>>

\* str::to_lowercase on the codes used here (ASCII letters only change)
to_lowercase(s) == [i \in 1..Len(s) |-> IF s[i] >= 65 /\ s[i] <= 90 THEN s[i] + 32 ELSE s[i]]

RECURSIVE SeqLess(_, _)
\* lexicographic order of two code sequences (str::cmp, Path::cmp by components)
SeqLess(s, t) ==
  IF t = <<>> THEN FALSE
  ELSE IF s = <<>> THEN TRUE
  ELSE IF Head(s) < Head(t) THEN TRUE
  ELSE IF Head(s) > Head(t) THEN FALSE
  ELSE SeqLess(Tail(s), Tail(t))

\* Path::file_name().unwrap_or_default(): the last component, or empty
file_name(path) == IF path = <<>> THEN <<>> ELSE <<path[Len(path)]>>

\* path.file_name().unwrap_or_default().to_string_lossy().to_string()
lossy_file_name(path) == IF path = <<>> THEN <<>> ELSE to_string_lossy(path[Len(path)])

\* ------------------------------------------------------------------------
\* Filesystem
\* ------------------------------------------------------------------------
\* fs::Metadata of an entry; kind "none" stands for a missing entry
NoEntry == [kind |-> "none", len |-> 0, head |-> 0, tail |-> 0, ok |-> TRUE]
DirEntry == [kind |-> "dir", len |-> 0, head |-> 0, tail |-> 0, ok |-> TRUE]
FileEntry(len, head, tail, ok) == [kind |-> "file", len |-> len, head |-> head, tail |-> tail, ok |-> ok]

meta_is_dir(m) == m.kind = "dir"
meta_is_file(m) == m.kind = "file"

\* modification time reported for every existing entry
MTime == 1

\* the entry of directory tree t (a function from relative paths) at path p
EntryAt(t, p) == IF p = <<>> THEN DirEntry ELSE IF p \in DOMAIN t THEN t[p] ELSE NoEntry

\* a directory tree is well formed when every entry's parent is a directory
WellFormed(t) ==
  \A p \in DOMAIN t :
    t[p].kind # "none" /\ Len(p) > 1 => EntryAt(t, SubSeq(p, 1, Len(p) - 1)).kind = "dir"

\* WalkDir over a root: every existing entry, the root itself included under
\* the empty relative path (entry.path().strip_prefix(dir) of the root is "")
collect_files(t) ==
  LET present == {p \in DOMAIN t : t[p].kind # "none"} \cup {<<>>}
  IN [p \in present |-> EntryAt(t, p)]

\* ------------------------------------------------------------------------
\* File nodes
\* ------------------------------------------------------------------------
FileNode_new(name, path, is_dir, status) ==
  [name |-> name, path |-> path, is_dir |-> is_dir, status |-> status,
   children |-> <<>>, expanded |-> FALSE, size |-> NoneVal, modified |-> NoneVal]

\* metadata is an entry, or NoEntry for Option::None
FileNode_new_with_metadata(name, path, is_dir, status, metadata) ==
  [name |-> name, path |-> path, is_dir |-> is_dir, status |-> status,
   children |-> <<>>, expanded |-> FALSE,
   size |-> IF metadata.kind = "none" \/ is_dir THEN NoneVal ELSE metadata.len,
   modified |-> IF metadata.kind = "none" THEN NoneVal ELSE MTime]

toggle_expanded(node) == IF node.is_dir THEN [node EXCEPT !.expanded = ~@] ELSE node

\* ------------------------------------------------------------------------
\* Equality oracle
\* ------------------------------------------------------------------------
SmallFileLimit == 4096
MediumFileLimit == 1048576

\* crc32fast over the whole content: a many-to-one function of the content,
\* which is identified by (len, head, tail)
CrcModulus == 65536
crc32(e) == (e.len + 31 * e.head + 961 * e.tail) % CrcModulus

\* the first bytes_to_read bytes of a file: their count and their identity
file_head(e, bytes_to_read) ==
  <<IF e.len < bytes_to_read THEN e.len ELSE bytes_to_read, e.head>>

\* files_are_same with the content comparison kept up to SmallFileLimit bytes
files_are_same_small_inclusive(left_live, right_live, left_meta, right_meta) ==
  IF meta_is_dir(left_live) \/ meta_is_dir(right_live) THEN "false"
  ELSE IF left_live.kind = "none" \/ right_live.kind = "none" THEN "false"
  ELSE IF left_meta.len # right_meta.len THEN "false"
  ELSE IF left_meta.len = 0 THEN "true"
  ELSE IF ~left_live.ok \/ ~right_live.ok THEN "err"
  ELSE IF left_meta.len <= SmallFileLimit THEN
    IF <<left_live.len, left_live.head, left_live.tail>>
         = <<right_live.len, right_live.head, right_live.tail>>
    THEN "true" ELSE "false"
  ELSE IF left_meta.len < MediumFileLimit THEN
    IF crc32(left_live) = crc32(right_live) THEN "true" ELSE "false"
  ELSE
    IF file_head(left_live, SmallFileLimit) = file_head(right_live, SmallFileLimit)
    THEN "true" ELSE "false"

\* left_live / right_live: what the filesystem holds at the two paths when the
\* oracle runs; left_meta / right_meta: the metadata taken by the scan.
\* Result: "true", "false" or "err" (an Err returned with ?).
files_are_same(left_live, right_live, left_meta, right_meta) ==
  IF meta_is_dir(left_live) \/ meta_is_dir(right_live) THEN "false"
  ELSE IF left_live.kind = "none" \/ right_live.kind = "none" THEN "false"
  ELSE IF left_meta.len # right_meta.len THEN "false"
  ELSE IF left_meta.len = 0 THEN "true"
  ELSE IF ~left_live.ok \/ ~right_live.ok THEN "err"
  ELSE IF left_meta.len < SmallFileLimit THEN
    IF <<left_live.len, left_live.head, left_live.tail>>
         = <<right_live.len, right_live.head, right_live.tail>>
    THEN "true" ELSE "false"
  ELSE IF left_meta.len < MediumFileLimit THEN
    IF crc32(left_live) = crc32(right_live) THEN "true" ELSE "false"
  ELSE
    IF file_head(left_live, SmallFileLimit) = file_head(right_live, SmallFileLimit)
    THEN "true" ELSE "false"

\* ------------------------------------------------------------------------
\* Tree builder
\* ------------------------------------------------------------------------
\* current.children.iter().position(|child| child.path.file_name() == component),
\* 0 when there is none
child_position(current, component) ==
  LET hits == {i \in 1..Len(current.children) :
                 file_name(current.children[i].path) = <<component>>}
  IN IF hits = {} THEN 0 ELSE CHOOSE i \in hits : \A j \in hits : i <= j

RECURSIVE insert_from(_, _, _, _, _, _, _)
\* the loop of insert_into_tree from component i on, with `current` the node
\* reached so far; returns `current` with the insertion done below it
insert_from(current, components, i, name, is_dir, status, metadata) ==
  IF i > Len(components) THEN current
  ELSE
    LET component == components[i]
        is_last == (i = Len(components))
        index == child_position(current, component)
    IN IF index # 0
       THEN LET found == current.children[index]
                updated == IF is_last THEN [found EXCEPT !.status = status] ELSE found
            IN [current EXCEPT !.children[index] =
                  insert_from(updated, components, i + 1, name, is_dir, status, metadata)]
       ELSE LET child_path == IF i = 1 THEN to_string_lossy(component)
                              ELSE SubSeq(components, 1, i)
                new_child == IF is_last
                             THEN FileNode_new_with_metadata(name, child_path, is_dir, status, metadata)
                             ELSE FileNode_new(to_string_lossy(component), child_path, TRUE, "Same")
            IN [current EXCEPT !.children = Append(@,
                  insert_from(new_child, components, i + 1, name, is_dir, status, metadata))]

insert_into_tree(root, path, name, is_dir, status, metadata) ==
  insert_from(root, path, 1, name, is_dir, status, metadata)

\* ------------------------------------------------------------------------
\* Tree sorter
\* ------------------------------------------------------------------------
\* the name the comparator uses for a node
sort_name(a) == IF a.name = <<>> THEN (IF a.path = <<>> THEN <<>> ELSE to_str_or_empty(a.path[Len(a.path)])) ELSE a.name

\* the comparator of sort_tree_recursive says Ordering::Less
sort_less(a, b) ==
  IF a.is_dir /\ ~b.is_dir THEN TRUE
  ELSE IF ~a.is_dir /\ b.is_dir THEN FALSE
  ELSE SeqLess(to_lowercase(sort_name(a)), to_lowercase(sort_name(b)))

RECURSIVE stable_insert(_, _)
\* x placed in the sorted sequence s behind every element not greater than it
stable_insert(s, x) ==
  IF s = <<>> THEN <<x>>
  ELSE IF sort_less(x, Head(s)) THEN <<x>> \o s
  ELSE <<Head(s)>> \o stable_insert(Tail(s), x)

RECURSIVE stable_sort(_)
\* slice::sort_by (stable)
stable_sort(s) ==
  IF s = <<>> THEN <<>>
  ELSE stable_insert(stable_sort(SubSeq(s, 1, Len(s) - 1)), s[Len(s)])

RECURSIVE sort_tree_recursive(_)
sort_tree_recursive(node) ==
  LET sorted == stable_sort(node.children)
  IN [node EXCEPT !.children = [i \in 1..Len(sorted) |-> sort_tree_recursive(sorted[i])]]

\* ------------------------------------------------------------------------
\* Status propagator
\* ------------------------------------------------------------------------
RECURSIVE update_folder_status_left_wins(_)
\* update_folder_status without the arm for LeftOnly next to Same children
update_folder_status_left_wins(node) ==
  IF ~node.is_dir THEN node
  ELSE
    LET kids == [i \in 1..Len(node.children) |-> update_folder_status_left_wins(node.children[i])]
        child_statuses == {kids[i].status : i \in 1..Len(kids)}
        new_status ==
          IF child_statuses = {} THEN node.status
          ELSE IF "Different" \in child_statuses THEN "Different"
          ELSE IF "LeftOnly" \in child_statuses /\ "RightOnly" \in child_statuses THEN "Different"
          ELSE IF "RightOnly" \in child_statuses /\ "Same" \in child_statuses THEN "Different"
          ELSE IF "LeftOnly" \in child_statuses THEN "LeftOnly"
          ELSE IF "RightOnly" \in child_statuses THEN "RightOnly"
          ELSE "Same"
    IN [node EXCEPT !.children = kids, !.status = new_status]

RECURSIVE update_folder_status(_)
update_folder_status(node) ==
  IF ~node.is_dir THEN node
  ELSE
    LET kids == [i \in 1..Len(node.children) |-> update_folder_status(node.children[i])]
        child_statuses == {kids[i].status : i \in 1..Len(kids)}
        has_different == "Different" \in child_statuses
        has_left_only == "LeftOnly" \in child_statuses
        has_right_only == "RightOnly" \in child_statuses
        has_same == "Same" \in child_statuses
        new_status ==
          IF child_statuses = {} THEN node.status
          ELSE IF has_different THEN "Different"
          ELSE IF has_left_only /\ has_right_only THEN "Different"
          ELSE IF has_left_only /\ has_same THEN "Different"
          ELSE IF has_right_only /\ has_same THEN "Different"
          ELSE IF has_left_only THEN "LeftOnly"
          ELSE IF has_right_only THEN "RightOnly"
          ELSE "Same"
    IN [node EXCEPT !.children = kids, !.status = new_status]

\* ------------------------------------------------------------------------
\* Build pipeline
\* ------------------------------------------------------------------------
\* a progress string handed to the callback: "Progress: a/b" is
\* ProgressText("Progress", a, b), "Scanning... a files" is
\* ProgressText("Scanning", a, 0), and so on
ProgressText(tag, a, b) == [tag |-> tag, a |-> a, b |-> b]

\* HashMap::get: the metadata, or NoEntry for None
map_get(files, path) == IF path \in DOMAIN files THEN files[path] ELSE NoEntry

RECURSIVE sorted_paths(_)
\* iteration order of the BTreeSet of all paths
sorted_paths(S) ==
  IF S = {} THEN <<>>
  ELSE LET first == CHOOSE p \in S : \A q \in S \ {p} : SeqLess(p, q)
       IN <<first>> \o sorted_paths(S \ {first})

\* a root node as both builders create it
root_node(dir) == [FileNode_new(lossy_file_name(dir), dir, TRUE, "Same") EXCEPT !.expanded = TRUE]

\* the three arms that insert one path into both trees
insert_both(acc, path, name, is_dir, status, left_meta, right_meta) ==
  IF status = "LeftOnly" THEN
    [acc EXCEPT !.left = insert_into_tree(@, path, name, is_dir, status, left_meta),
                !.right = insert_into_tree(@, path, <<>>, is_dir, status, NoEntry)]
  ELSE IF status = "RightOnly" THEN
    [acc EXCEPT !.left = insert_into_tree(@, path, <<>>, is_dir, status, NoEntry),
                !.right = insert_into_tree(@, path, name, is_dir, status, right_meta)]
  ELSE
    [acc EXCEPT !.left = insert_into_tree(@, path, name, is_dir, status, left_meta),
                !.right = insert_into_tree(@, path, name, is_dir, status, right_meta)]

\* is_dir of a path: the left metadata decides when there is one
path_is_dir(left_meta, right_meta) ==
  IF left_meta.kind # "none" THEN meta_is_dir(left_meta)
  ELSE IF right_meta.kind # "none" THEN meta_is_dir(right_meta)
  ELSE FALSE

\* status match of compare_trees; "err" when the oracle fails
initial_status(left_meta, right_meta, left_live, right_live) ==
  IF left_meta.kind # "none" /\ right_meta.kind # "none" THEN
    IF meta_is_file(left_meta) /\ meta_is_file(right_meta) THEN
      LET same == files_are_same(left_live, right_live, left_meta, right_meta)
      IN IF same = "err" THEN "err" ELSE IF same = "true" THEN "Same" ELSE "Different"
    ELSE "Same"
  ELSE IF left_meta.kind # "none" THEN "LeftOnly"
  ELSE "RightOnly"

\* status match of compare_trees_with_progress; "err" when the oracle fails
progress_status(left_meta, right_meta, left_live, right_live) ==
  IF left_meta.kind # "none" /\ right_meta.kind = "none" THEN "LeftOnly"
  ELSE IF left_meta.kind = "none" /\ right_meta.kind # "none" THEN "RightOnly"
  ELSE IF left_meta.kind # "none" /\ right_meta.kind # "none" THEN
    IF path_is_dir(left_meta, right_meta) THEN "Same"
    ELSE LET same == files_are_same(left_live, right_live, left_meta, right_meta)
         IN IF same = "err" THEN "err" ELSE IF same = "true" THEN "Same" ELSE "Different"
  ELSE "Same"

RECURSIVE compare_loop(_, _, _, _, _, _, _, _)
\* the `for path in all_paths` loop of both builders from index k on;
\* acc = [left, right, msgs, processed, err]; with_progress selects the
\* builder (status rule and progress callbacks)
compare_loop(paths, k, acc, left_files, right_files, left_live, right_live, with_progress) ==
  IF k > Len(paths) \/ acc.err THEN acc
  ELSE IF paths[k] = <<>> THEN
    compare_loop(paths, k + 1, acc, left_files, right_files, left_live, right_live, with_progress)
  ELSE
    LET path == paths[k]
        total_paths == Len(paths)
        name == lossy_file_name(path)
        left_meta == map_get(left_files, path)
        right_meta == map_get(right_files, path)
        is_dir == path_is_dir(left_meta, right_meta)
        live_l == EntryAt(left_live, path)
        live_r == EntryAt(right_live, path)
        status == IF with_progress
                  THEN progress_status(left_meta, right_meta, live_l, live_r)
                  ELSE initial_status(left_meta, right_meta, live_l, live_r)
        comparing == IF with_progress /\ left_meta.kind # "none" /\ right_meta.kind # "none"
                        /\ ~is_dir /\ acc.processed % 100 = 0 /\ acc.processed > 0
                     THEN <<ProgressText("Comparing", acc.processed, total_paths)>>
                     ELSE <<>>
        processed == acc.processed + 1
        progress == IF with_progress /\ (processed % 10 = 0 \/ processed = total_paths)
                    THEN <<ProgressText("Progress", processed, total_paths)>>
                    ELSE <<>>
    IN IF status = "err"
       THEN [acc EXCEPT !.err = TRUE, !.msgs = @ \o comparing]
       ELSE compare_loop(paths, k + 1,
              [insert_both(acc, path, name, is_dir, status, left_meta, right_meta)
                 EXCEPT !.msgs = @ \o comparing \o progress, !.processed = processed],
              left_files, right_files, left_live, right_live, with_progress)

\* what both builders do after the loop: sort, then propagate
finish_trees(acc) ==
  [acc EXCEPT !.left = update_folder_status(sort_tree_recursive(@)),
              !.right = update_folder_status(sort_tree_recursive(@))]

\* result: [left, right, msgs, processed, err]; err = TRUE is Err(e)
compare_trees(left_dir, right_dir, left_files, right_files, left_live, right_live) ==
  LET paths == sorted_paths(DOMAIN left_files \cup DOMAIN right_files)
      start == [left |-> root_node(left_dir), right |-> root_node(right_dir),
                msgs |-> <<>>, processed |-> 0, err |-> FALSE]
      acc == compare_loop(paths, 1, start, left_files, right_files, left_live, right_live, FALSE)
  IN IF acc.err THEN acc ELSE finish_trees(acc)

compare_trees_with_progress(left_dir, right_dir, left_files, right_files, left_live, right_live) ==
  LET paths == sorted_paths(DOMAIN left_files \cup DOMAIN right_files)
      start == [left |-> root_node(left_dir), right |-> root_node(right_dir),
                msgs |-> <<ProgressText("FilesToCompare", Len(paths), 0),
                           ProgressText("ProcessingPaths", 0, 0)>>,
                processed |-> 0, err |-> FALSE]
      acc == compare_loop(paths, 1, start, left_files, right_files, left_live, right_live, TRUE)
  IN IF acc.err THEN acc ELSE finish_trees(acc)

\* the DirectoryComparison value
Comparison(left_tree, right_tree, left_dir, right_dir) ==
  [left_tree |-> left_tree, right_tree |-> right_tree,
   left_dir |-> left_dir, right_dir |-> right_dir]

\* ------------------------------------------------------------------------
\* Application: flattened rows
\* ------------------------------------------------------------------------
Spaces(n) == [i \in 1..n |-> 32]
IconOpenFolder == 128194
IconFolder == 128193
IconFile == 128196

\* the display_name string of a row
display_name(node, depth) ==
  LET indent == Spaces(2 * (depth - 1))
      icon == IF node.name = <<>> THEN <<>>
              ELSE IF node.is_dir THEN (IF node.expanded THEN <<IconOpenFolder>> ELSE <<IconFolder>>)
              ELSE <<IconFile>>
  IN IF node.name = <<>> THEN indent
     ELSE IF icon = <<>> THEN indent \o node.name
     ELSE indent \o icon \o <<32>> \o node.name

\* should_include with the Different filter hiding the one-sided entries
should_include_orphans_hidden(node, filter) ==
  IF filter = "All" THEN TRUE ELSE node.status = "Different"

should_include(node, filter) ==
  IF filter = "All" THEN TRUE
  ELSE IF filter = "Different" THEN node.status \in {"Different", "LeftOnly", "RightOnly"}
  ELSE node.status = "Different"

RECURSIVE flatten_children(_, _, _, _)
RECURSIVE flatten_tree_with_filter(_, _, _)
\* items.extend(flatten(child)) over children i..Len
flatten_children(node, i, depth, filter) ==
  IF i > Len(node.children) THEN <<>>
  ELSE flatten_tree_with_filter(node.children[i], depth, filter)
         \o flatten_children(node, i + 1, depth, filter)

flatten_tree_with_filter(node, depth, filter) ==
  IF depth = 0 THEN
    IF node.is_dir /\ node.expanded THEN flatten_children(node, 1, 1, filter) ELSE <<>>
  ELSE
    LET row == [display_name |-> display_name(node, depth), status |-> node.status,
                path |-> node.path, is_dir |-> node.is_dir,
                size |-> node.size, modified |-> node.modified]
        own == IF should_include(node, filter) THEN <<row>> ELSE <<>>
    IN IF node.is_dir /\ node.expanded
       THEN own \o flatten_children(node, 1, depth + 1, filter)
       ELSE own

update_file_lists(app) ==
  [app EXCEPT !.left_items = flatten_tree_with_filter(app.comparison.left_tree, 0, app.filter_mode),
              !.right_items = flatten_tree_with_filter(app.comparison.right_tree, 0, app.filter_mode)]

\* ------------------------------------------------------------------------
\* Application: selection
\* ------------------------------------------------------------------------
active_items(app) == IF app.active_panel = 0 THEN app.left_items ELSE app.right_items
active_selected(app) == IF app.active_panel = 0 THEN app.left_list_state ELSE app.right_list_state

\* Option<&item>: <<item>> for Some, <<>> for None
get_selected_item(app) ==
  LET items == active_items(app)
      selected == active_selected(app)
  IN IF selected # NoneVal /\ selected < Len(items) THEN <<items[selected + 1]>> ELSE <<>>

can_copy(app) ==
  LET sel == get_selected_item(app)
  IN IF sel = <<>> THEN FALSE
     ELSE IF sel[1].display_name = <<>> THEN FALSE
     ELSE IF sel[1].status = "LeftOnly" THEN app.active_panel = 0
     ELSE IF sel[1].status = "RightOnly" THEN app.active_panel = 1
     ELSE TRUE

Min(a, b) == IF a < b THEN a ELSE b
Max(a, b) == IF a > b THEN a ELSE b

\* select on the active panel's state / on the other panel's state
select_active(app, v) ==
  IF app.active_panel = 0 THEN [app EXCEPT !.left_list_state = v]
  ELSE [app EXCEPT !.right_list_state = v]
select_opposite(app, v) ==
  IF app.active_panel = 0 THEN [app EXCEPT !.right_list_state = v]
  ELSE [app EXCEPT !.left_list_state = v]
opposite_items(app) == IF app.active_panel = 0 THEN app.right_items ELSE app.left_items

move_selection(app, delta) ==
  LET current_items == active_items(app)
      current_selected == IF active_selected(app) = NoneVal THEN 0 ELSE active_selected(app)
      new_selected == IF delta > 0
                      THEN Min(current_selected + delta, Len(current_items) - 1)
                      ELSE Max(current_selected - (0 - delta), 0)
      moved == select_active(app, new_selected)
  IN IF current_items = <<>> THEN app
     ELSE IF opposite_items(app) # <<>>
     THEN select_opposite(moved, Min(new_selected, Len(opposite_items(app)) - 1))
     ELSE moved

scroll_to_top(app) ==
  IF active_items(app) = <<>> THEN app
  ELSE IF opposite_items(app) # <<>> THEN select_opposite(select_active(app, 0), 0)
  ELSE select_active(app, 0)

scroll_to_bottom(app) ==
  IF active_items(app) = <<>> THEN app
  ELSE IF opposite_items(app) # <<>>
  THEN select_opposite(select_active(app, Len(active_items(app)) - 1), Len(opposite_items(app)) - 1)
  ELSE select_active(app, Len(active_items(app)) - 1)

calculate_half_page(app) ==
  LET available_height == IF app.viewport_height < 5 THEN 0 ELSE app.viewport_height - 5
  IN Max(1, available_height \div 2)

\* ------------------------------------------------------------------------
\* Application: expansion
\* ------------------------------------------------------------------------
RECURSIVE contains_path(_, _)
\* find_node_in_tree returns Some
contains_path(node, target_path) ==
  node.path = target_path
    \/ \E i \in 1..Len(node.children) : contains_path(node.children[i], target_path)

RECURSIVE find_node_in_tree(_, _)
\* the node find_node_in_tree returns (first in pre-order); only used when
\* contains_path holds
find_node_in_tree(node, target_path) ==
  IF node.path = target_path THEN node
  ELSE LET i == CHOOSE k \in 1..Len(node.children) :
                  /\ contains_path(node.children[k], target_path)
                  /\ \A j \in 1..(k - 1) : ~contains_path(node.children[j], target_path)
       IN find_node_in_tree(node.children[i], target_path)

RECURSIVE replace_found(_, _, _)
\* the tree after the node returned by find_node_in_tree was overwritten by
\* `replacement` through the &mut reference
replace_found(node, target_path, replacement) ==
  IF node.path = target_path THEN replacement
  ELSE LET i == CHOOSE k \in 1..Len(node.children) :
                  /\ contains_path(node.children[k], target_path)
                  /\ \A j \in 1..(k - 1) : ~contains_path(node.children[j], target_path)
       IN [node EXCEPT !.children[i] = replace_found(@, target_path, replacement)]

active_tree(app) == IF app.active_panel = 0 THEN app.comparison.left_tree ELSE app.comparison.right_tree
opposite_tree(app) == IF app.active_panel = 0 THEN app.comparison.right_tree ELSE app.comparison.left_tree
with_active_tree(app, t) ==
  IF app.active_panel = 0 THEN [app EXCEPT !.comparison.left_tree = t]
  ELSE [app EXCEPT !.comparison.right_tree = t]
with_opposite_tree(app, t) ==
  IF app.active_panel = 0 THEN [app EXCEPT !.comparison.right_tree = t]
  ELSE [app EXCEPT !.comparison.left_tree = t]

toggle_folder(app) ==
  LET sel == get_selected_item(app)
  IN IF sel = <<>> THEN app
     ELSE IF ~sel[1].is_dir THEN app
     ELSE IF active_selected(app) = NoneVal THEN app
     ELSE IF ~contains_path(active_tree(app), sel[1].path) THEN app
     ELSE
       LET path == sel[1].path
           node == toggle_expanded(find_node_in_tree(active_tree(app), path))
           new_expanded_state == node.expanded
           app1 == with_active_tree(app, replace_found(active_tree(app), path, node))
           app2 == IF contains_path(opposite_tree(app1), path)
                   THEN with_opposite_tree(app1,
                          replace_found(opposite_tree(app1), path,
                            [find_node_in_tree(opposite_tree(app1), path)
                               EXCEPT !.expanded = new_expanded_state]))
                   ELSE app1
       IN update_file_lists(app2)

RECURSIVE expand_all_folders(_)
expand_all_folders(node) ==
  IF node.is_dir
  THEN [node EXCEPT !.expanded = TRUE,
                    !.children = [i \in 1..Len(node.children) |-> expand_all_folders(node.children[i])]]
  ELSE node

RECURSIVE collapse_all_folders(_)
collapse_all_folders(node) ==
  IF node.is_dir
  THEN [node EXCEPT !.expanded = FALSE,
                    !.children = [i \in 1..Len(node.children) |-> collapse_all_folders(node.children[i])]]
  ELSE node

expand_all(app) ==
  update_file_lists([app EXCEPT !.comparison.left_tree = expand_all_folders(@),
                                !.comparison.right_tree = expand_all_folders(@)])

collapse_all(app) ==
  update_file_lists([app EXCEPT
    !.comparison.left_tree = [collapse_all_folders(@) EXCEPT !.expanded = TRUE],
    !.comparison.right_tree = [collapse_all_folders(@) EXCEPT !.expanded = TRUE]])

swap_panels(app) ==
  update_file_lists([app EXCEPT
    !.comparison.left_dir = app.comparison.right_dir,
    !.comparison.right_dir = app.comparison.left_dir,
    !.comparison.left_tree = app.comparison.right_tree,
    !.comparison.right_tree = app.comparison.left_tree])

set_filter(app, filter) == update_file_lists([app EXCEPT !.filter_mode = filter])

\* ------------------------------------------------------------------------
\* Application: copy
\* ------------------------------------------------------------------------
IsPrefix(p, q) == Len(p) <= Len(q) /\ SubSeq(q, 1, Len(p)) = p
ProperPrefixes(p) == {SubSeq(p, 1, n) : n \in 1..(Len(p) - 1)}

RECURSIVE SumLen(_, _)
\* sum of the byte lengths of the entries of tree t at the paths in S
SumLen(t, S) ==
  IF S = {} THEN 0
  ELSE LET p == CHOOSE q \in S : TRUE IN t[p].len + SumLen(t, S \ {p})

\* (file_count, folder_count, total_bytes) of the directory at rel in tree t;
\* read_dir failing (not a directory) leaves the initial counts
calculate_dir_stats(t, rel) ==
  IF EntryAt(t, rel).kind # "dir" THEN <<0, 1, 0>>
  ELSE LET below == {q \in DOMAIN t : IsPrefix(rel, q) /\ q # rel /\ t[q].kind # "none"}
           files == {q \in below : t[q].kind = "file"}
       IN <<Cardinality(files), 1 + Cardinality(below \ files), SumLen(t, files)>>

\* an absolute path is kept as the root directory it starts with and the
\* relative path joined to it
JoinPath(dir, rel) == [dir |-> dir, rel |-> rel]

left_panel_dir(app) == app.comparison.left_dir
right_panel_dir(app) == app.comparison.right_dir

\* fs: the filesystem, one directory tree per root directory
prepare_copy(app, fs) ==
  LET sel == get_selected_item(app)
  IN IF sel = <<>> THEN app
     ELSE
       LET from_left_to_right == (app.active_panel = 0)
           source_dir == IF from_left_to_right THEN left_panel_dir(app) ELSE right_panel_dir(app)
           target_dir == IF from_left_to_right THEN right_panel_dir(app) ELSE left_panel_dir(app)
           stats == IF sel[1].is_dir THEN calculate_dir_stats(fs[source_dir], sel[1].path)
                    ELSE <<1, 0, IF sel[1].size = NoneVal THEN 0 ELSE sel[1].size>>
       IN [app EXCEPT
             !.copy_info = <<[source_path |-> JoinPath(source_dir, sel[1].path),
                              target_path |-> JoinPath(target_dir, sel[1].path),
                              file_count |-> stats[1], folder_count |-> stats[2],
                              total_bytes |-> stats[3],
                              from_left_to_right |-> from_left_to_right]>>,
             !.mode = "CopyConfirm"]

cancel_copy(app) == [app EXCEPT !.copy_info = <<>>, !.mode = "DirectoryView"]

\* fs::create_dir_all(rel) in tree t: [ok, tree]
create_dir_all(t, rel) ==
  LET chain == ProperPrefixes(rel) \cup (IF rel = <<>> THEN {} ELSE {rel})
  IN IF \E q \in chain : EntryAt(t, q).kind = "file" \/ q \notin DOMAIN t
     THEN [ok |-> FALSE, tree |-> t]
     ELSE [ok |-> TRUE, tree |-> [q \in DOMAIN t |-> IF q \in chain THEN DirEntry ELSE t[q]]]

\* the file branch of execute_copy: create_dir_all(parent), fs::copy
copy_file(src, dst, rel) ==
  LET parent == IF rel = <<>> THEN <<>> ELSE SubSeq(rel, 1, Len(rel) - 1)
      made == create_dir_all(dst, parent)
      source == EntryAt(src, rel)
  IN IF ~made.ok THEN made
     ELSE IF source.kind # "file" \/ ~source.ok \/ EntryAt(made.tree, rel).kind = "dir"
             \/ rel \notin DOMAIN dst
     THEN [ok |-> FALSE, tree |-> made.tree]
     ELSE [ok |-> TRUE, tree |-> [made.tree EXCEPT ![rel] = source]]

RECURSIVE copy_entries(_, _, _, _)
\* the entries below a copied directory, visited parents first in path order,
\* from index k on; acc = [ok, tree]
copy_entries(src, order, k, acc) ==
  IF k > Len(order) \/ ~acc.ok THEN acc
  ELSE LET q == order[k]
           source == src[q]
           target == EntryAt(acc.tree, q)
       IN IF source.kind = "dir"
          THEN IF target.kind = "file" THEN [acc EXCEPT !.ok = FALSE]
               ELSE copy_entries(src, order, k + 1, [acc EXCEPT !.tree[q] = DirEntry])
          ELSE IF target.kind = "dir" \/ ~source.ok THEN [acc EXCEPT !.ok = FALSE]
               ELSE copy_entries(src, order, k + 1, [acc EXCEPT !.tree[q] = source])

\* copy_dir_all(src/rel, dst/rel)
copy_dir_all(src, dst, rel) ==
  LET made == create_dir_all(dst, rel)
      below == {q \in DOMAIN src : IsPrefix(rel, q) /\ q # rel /\ src[q].kind # "none"}
  IN IF ~made.ok THEN made ELSE copy_entries(src, sorted_paths(below), 1, made)

save_current_state(app) ==
  [app EXCEPT !.saved_left_selection = app.left_list_state,
              !.saved_right_selection = app.right_list_state,
              !.saved_active_panel = app.active_panel,
              !.saved_filter_mode = <<app.filter_mode>>,
              !.saved_expansion_state = <<app.comparison.left_tree, app.comparison.right_tree>>]

\* start_refresh without the is_refreshing test
start_refresh_unguarded(app) ==
  [app EXCEPT !.is_refreshing = TRUE,
              !.refresh_progress = ProgressText("StartingRefresh", 0, 0),
              !.refresh_rx = TRUE,
              !.spawned = @ + 1]

\* start_refresh with the is_refreshing test after the progress text is set
start_refresh_late_guard(app) ==
  IF app.is_refreshing
  THEN [app EXCEPT !.refresh_progress = ProgressText("StartingRefresh", 0, 0)]
  ELSE [app EXCEPT !.is_refreshing = TRUE,
                   !.refresh_progress = ProgressText("StartingRefresh", 0, 0),
                   !.refresh_rx = TRUE,
                   !.spawned = @ + 1]

start_refresh(app) ==
  IF app.is_refreshing THEN app
  ELSE [app EXCEPT !.is_refreshing = TRUE,
                   !.refresh_progress = ProgressText("StartingRefresh", 0, 0),
                   !.refresh_rx = TRUE,
                   !.spawned = @ + 1]

\* what the copy of execute_copy does to the filesystem: [ok, fs]
copy_effect(app, fs, io_ok) ==
  LET info == app.copy_info[1]
      src_dir == info.source_path.dir
      dst_dir == info.target_path.dir
      rel == info.source_path.rel
      done == IF EntryAt(fs[src_dir], rel).kind = "dir"
              THEN copy_dir_all(fs[src_dir], fs[dst_dir], rel)
              ELSE copy_file(fs[src_dir], fs[dst_dir], rel)
  IN IF ~io_ok THEN [ok |-> FALSE, fs |-> fs]
     ELSE [ok |-> done.ok, fs |-> [fs EXCEPT ![dst_dir] = done.tree]]

\* execute_copy collapsing the trees before the refresh it starts
execute_copy_collapses_trees(app, copied_ok) ==
  IF app.copy_info = <<>> THEN [app EXCEPT !.copy_info = <<>>, !.mode = "DirectoryView"]
  ELSE IF ~copied_ok THEN save_current_state(app)
  ELSE [start_refresh(save_current_state(collapse_all(app)))
          EXCEPT !.copy_info = <<>>, !.mode = "DirectoryView"]

\* the App after execute_copy; copied_ok: no `?` returned early
execute_copy(app, copied_ok) ==
  IF app.copy_info = <<>> THEN [app EXCEPT !.copy_info = <<>>, !.mode = "DirectoryView"]
  ELSE IF ~copied_ok THEN save_current_state(app)
  ELSE [start_refresh(save_current_state(app)) EXCEPT !.copy_info = <<>>, !.mode = "DirectoryView"]

\* ------------------------------------------------------------------------
\* Application: refresh and reconciliation
\* ------------------------------------------------------------------------
\* the fraction the worker's callback derives from the text of a progress
\* string, in 1/10000 (the chain of msg.contains tests, in its order)
percentage_of(text) ==
  IF text.tag = "StartingScan" THEN 0
  ELSE IF text.tag = "ScanningLeft" THEN 500
  ELSE IF text.tag = "ScanningRight" THEN 1500
  ELSE IF text.tag = "Scanning" THEN Min(text.a * 10, 2000) + 500
  ELSE IF text.tag = "FilesToCompare" THEN 2500
  ELSE IF text.tag = "Progress" THEN 2500 + (text.a * 7500) \div text.b
  ELSE IF text.tag = "Comparing" THEN 2500 + (text.a * 7000) \div text.b
  ELSE IF text.tag = "Complete" THEN 10000
  ELSE 5000

\* RefreshMessage
ProgressMessage(text) ==
  [type |-> "Progress", text |-> text, percentage |-> percentage_of(text), comparison |-> <<>>]
CompleteMessage(comparison) ==
  [type |-> "Complete", text |-> ProgressText("", 0, 0), percentage |-> 0, comparison |-> <<comparison>>]
ErrorMessage ==
  [type |-> "Error", text |-> ProgressText("Error", 0, 0), percentage |-> 0, comparison |-> <<>>]

\* position (or 0) of the first saved child with the path and kind of `child`
saved_child_position(saved_tree, child) ==
  LET hits == {i \in 1..Len(saved_tree.children) :
                 /\ saved_tree.children[i].path = child.path
                 /\ saved_tree.children[i].is_dir = child.is_dir}
  IN IF hits = {} THEN 0 ELSE CHOOSE i \in hits : \A j \in hits : i <= j

RECURSIVE restore_expansion_state_safe(_, _)
restore_expansion_state_safe(current_tree, saved_tree) ==
  LET here == IF current_tree.is_dir /\ saved_tree.is_dir /\ current_tree.path = saved_tree.path
              THEN [current_tree EXCEPT !.expanded = saved_tree.expanded]
              ELSE current_tree
  IN [here EXCEPT !.children =
        [i \in 1..Len(here.children) |->
           LET k == saved_child_position(saved_tree, here.children[i])
           IN IF k = 0 THEN here.children[i]
              ELSE restore_expansion_state_safe(here.children[i], saved_tree.children[k])]]

\* the clamp of one saved selection against the recomputed list
restored_selection(saved, items, current) ==
  IF saved = NoneVal THEN current
  ELSE IF saved < Len(items) THEN saved
  ELSE IF items # <<>> THEN 0
  ELSE current

restore_saved_state_safe(app) ==
  LET app1 == [app EXCEPT
                 !.filter_mode = IF app.saved_filter_mode # <<>> THEN app.saved_filter_mode[1] ELSE @,
                 !.saved_filter_mode = <<>>,
                 !.active_panel = app.saved_active_panel]
      app2 == IF app1.saved_expansion_state # <<>>
              THEN [app1 EXCEPT
                      !.comparison.left_tree =
                         restore_expansion_state_safe(@, app1.saved_expansion_state[1]),
                      !.comparison.right_tree =
                         restore_expansion_state_safe(@, app1.saved_expansion_state[2]),
                      !.saved_expansion_state = <<>>]
              ELSE app1
      app3 == update_file_lists([app2 EXCEPT !.comparison.left_tree.expanded = TRUE,
                                             !.comparison.right_tree.expanded = TRUE])
  IN [app3 EXCEPT
        !.left_list_state = restored_selection(app3.saved_left_selection, app3.left_items, @),
        !.right_list_state = restored_selection(app3.saved_right_selection, app3.right_items, @),
        !.saved_left_selection = NoneVal,
        !.saved_right_selection = NoneVal,
        !.saved_expansion_state = <<>>,
        !.saved_filter_mode = <<>>]

\* the Complete arm without the reset of is_refreshing
on_complete_keeps_refreshing(app, comparison) ==
  LET app1 == update_file_lists([app EXCEPT
                 !.comparison = [comparison EXCEPT !.left_tree.expanded = TRUE,
                                                   !.right_tree.expanded = TRUE]])
      app2 == [app1 EXCEPT !.refresh_progress = ProgressText("", 0, 0),
                           !.refresh_rx = FALSE]
  IN IF app2.saved_expansion_state # <<>> THEN restore_saved_state_safe(app2) ELSE app2

\* the Complete arm of check_refresh_progress
on_complete(app, comparison) ==
  LET app1 == update_file_lists([app EXCEPT
                 !.comparison = [comparison EXCEPT !.left_tree.expanded = TRUE,
                                                   !.right_tree.expanded = TRUE]])
      app2 == [app1 EXCEPT !.is_refreshing = FALSE,
                           !.refresh_progress = ProgressText("", 0, 0),
                           !.refresh_rx = FALSE]
  IN IF app2.saved_expansion_state # <<>> THEN restore_saved_state_safe(app2) ELSE app2

\* the Error arm without the reset of is_refreshing
on_error_keeps_refreshing(app) ==
  [app EXCEPT !.refresh_progress = ProgressText("RefreshFailed", 0, 0),
              !.refresh_rx = FALSE]

\* the Error arm of check_refresh_progress
on_error(app) ==
  [app EXCEPT !.refresh_progress = ProgressText("RefreshFailed", 0, 0),
              !.is_refreshing = FALSE,
              !.refresh_rx = FALSE]

RECURSIVE apply_messages_keeps_percentage(_, _, _)
\* the loop with a Progress arm that leaves refresh_percentage alone
apply_messages_keeps_percentage(app, messages, i) ==
  IF i > Len(messages) THEN app
  ELSE IF messages[i].type = "Progress"
  THEN apply_messages_keeps_percentage([app EXCEPT !.refresh_progress = messages[i].text],
                                       messages, i + 1)
  ELSE IF messages[i].type = "Complete" THEN on_complete(app, messages[i].comparison[1])
  ELSE on_error(app)

RECURSIVE apply_messages(_, _, _)
\* the `for msg in messages` loop from index i on
apply_messages(app, messages, i) ==
  IF i > Len(messages) THEN app
  ELSE IF messages[i].type = "Progress"
  THEN apply_messages([app EXCEPT !.refresh_progress = messages[i].text,
                                  !.refresh_percentage = messages[i].percentage],
                      messages, i + 1)
  ELSE IF messages[i].type = "Complete" THEN on_complete(app, messages[i].comparison[1])
  ELSE on_error(app)

\* queued: what try_recv yields until it reports an empty channel
check_refresh_progress(app, queued) ==
  IF ~app.refresh_rx THEN app ELSE apply_messages(app, queued, 1)

\* ------------------------------------------------------------------------
\* State
\* ------------------------------------------------------------------------
VARIABLES
  fs,          \* the filesystem: one directory tree per root directory
  app,         \* the App value
  workers,     \* the refresh threads spawned so far, in spawn order
  channels,    \* the mpsc channel created for each of them
  exited,      \* run_app has returned
  fs_changes,  \* number of external filesystem changes so far
  copies,      \* number of execute_copy calls so far
  events       \* number of key and mouse events handled so far

vars == <<fs, app, workers, channels, exited, fs_changes, copies, events>>

\* the two command line arguments: relative directory names "a" and "b"
DirA == <<97>>
DirB == <<98>>
Dirs == {DirA, DirB}

SmallFile(head) == FileEntry(10, head, 0, TRUE)

\* a directory tree over the path set P from the entries listed in t
TreeOf(P, t) == [p \in P |-> IF p \in DOMAIN t THEN t[p] ELSE NoEntry]

\* the filesystem with left tree l and right tree r
TwoTrees(l, r) == [d \in Dirs |-> IF d = DirA THEN l ELSE r]

\* DirectoryComparison::new: [left, right, err, ...] of the initial build
initial_build(f, left_dir, right_dir) ==
  compare_trees(left_dir, right_dir, collect_files(f[left_dir]), collect_files(f[right_dir]),
                f[left_dir], f[right_dir])

\* App::new
App_new(comparison) ==
  [update_file_lists(
     [comparison |-> comparison, mode |-> "DirectoryView", active_panel |-> 0,
      left_list_state |-> NoneVal, right_list_state |-> NoneVal,
      left_items |-> <<>>, right_items |-> <<>>, filter_mode |-> "All",
      is_refreshing |-> FALSE, refresh_progress |-> ProgressText("", 0, 0),
      refresh_percentage |-> 0, refresh_rx |-> FALSE, spawned |-> 0,
      viewport_height |-> 24,
      copy_info |-> <<>>, saved_left_selection |-> NoneVal,
      saved_right_selection |-> NoneVal, saved_active_panel |-> 0,
      saved_expansion_state |-> <<>>, saved_filter_mode |-> <<>>])
   EXCEPT !.left_list_state = 0]

\* run_tui on the filesystem f: the state when the interactive loop starts
Started(f) ==
  /\ fs = f
  /\ ~initial_build(f, DirA, DirB).err
  /\ app = App_new(Comparison(initial_build(f, DirA, DirB).left,
                              initial_build(f, DirA, DirB).right, DirA, DirB))
  /\ workers = <<>>
  /\ channels = <<>>
  /\ exited = FALSE
  /\ fs_changes = 0
  /\ copies = 0
  /\ events = 0

\* ------------------------------------------------------------------------
\* Refresh worker (the closure passed to thread::spawn)
\* ------------------------------------------------------------------------
NoFiles == <<>>

\* a thread that has returned
ExitedWorker ==
  [pc |-> "exited", left_dir |-> <<>>, right_dir |-> <<>>,
   left_files |-> NoFiles, right_files |-> NoFiles, outbox |-> <<>>]

NewWorker(left_dir, right_dir) ==
  [pc |-> "begin", left_dir |-> left_dir, right_dir |-> right_dir,
   left_files |-> NoFiles, right_files |-> NoFiles, outbox |-> <<>>]

\* queue: sent and not yet received; sent / received: the types of the
\* messages sent and received so far; ended: the terminal message was received
\* and the receiver dropped; old_trees: the two trees when the refresh
\* started; refused: start_refresh was called again while this refresh was
\* outstanding
NewChannel(comparison) ==
  [queue |-> <<>>, sent |-> <<>>, received |-> <<>>, ended |-> FALSE,
   old_trees |-> <<comparison.left_tree, comparison.right_tree>>, refused |-> FALSE]

EndedChannel ==
  [queue |-> <<>>, sent |-> <<>>, received |-> <<>>, ended |-> TRUE,
   old_trees |-> <<>>, refused |-> FALSE]

\* the threads and channels after a handler that called start_refresh
\* (called) or not; app.spawned counts the thread::spawn calls; before/after
\* are the App before and after the whole handler
Spawning(before, after, called) ==
  IF after.spawned > before.spawned
  THEN /\ after.spawned <= MaxRefreshes
       /\ workers' = Append(workers, NewWorker(before.comparison.left_dir, before.comparison.right_dir))
       /\ channels' = Append(channels, NewChannel(before.comparison))
  ELSE IF called /\ channels # <<>> /\ ~channels[Len(channels)].ended
  THEN /\ channels' = [channels EXCEPT ![Len(channels)].refused = TRUE]
       /\ UNCHANGED workers
  ELSE UNCHANGED <<workers, channels>>

\* the channel whose receiver refresh_rx holds is the newest one
CurrentChannel == Len(channels)

\* "Scanning... n files" for every 50th of count entries
scanning_texts(count) == [i \in 1..(count \div 50) |-> ProgressMessage(ProgressText("Scanning", 50 * i, 0))]

\* the messages from the start of the closure to the left scan
begin_messages ==
  <<ProgressMessage(ProgressText("StartingScan", 0, 0)),
    ProgressMessage(ProgressText("ScanningLeft", 0, 0))>>

\* scan_messages with a failing entry skipped instead of returned with ?
scan_messages_skip_failure(files, io_ok, next_text) ==
  scanning_texts(Cardinality(DOMAIN files)) \o <<ProgressMessage(ProgressText(next_text, 0, 0))>>

\* the messages of one collect_files_with_progress and what follows it
\* (next_text), or the Error message when an entry fails
scan_messages(files, io_ok, next_text) ==
  IF io_ok
  THEN scanning_texts(Cardinality(DOMAIN files)) \o <<ProgressMessage(ProgressText(next_text, 0, 0))>>
  ELSE <<ErrorMessage>>

\* the closure sending Complete before the last progress text
compare_messages_terminal_early(left_dir, right_dir, left_files, right_files, left_live, right_live) ==
  LET built == compare_trees_with_progress(left_dir, right_dir, left_files, right_files,
                                           left_live, right_live)
      texts == [i \in 1..Len(built.msgs) |-> ProgressMessage(built.msgs[i])]
  IN IF built.err THEN texts \o <<ErrorMessage>>
     ELSE texts \o <<CompleteMessage(Comparison(built.left, built.right, left_dir, right_dir)),
                     ProgressMessage(ProgressText("Complete", 0, 0))>>

\* the messages of compare_trees_with_progress and the end of the closure
compare_messages(left_dir, right_dir, left_files, right_files, left_live, right_live) ==
  LET built == compare_trees_with_progress(left_dir, right_dir, left_files, right_files,
                                           left_live, right_live)
      texts == [i \in 1..Len(built.msgs) |-> ProgressMessage(built.msgs[i])]
  IN IF built.err THEN texts \o <<ErrorMessage>>
     ELSE texts \o <<ProgressMessage(ProgressText("Complete", 0, 0)),
                     CompleteMessage(Comparison(built.left, built.right, left_dir, right_dir))>>

\* DirectoryComparison::new_with_progress inside the closure, run without
\* interruption on the filesystem f: every message the thread sends
new_with_progress(f, left_dir, right_dir, left_ok, right_ok) ==
  begin_messages
    \o scan_messages(collect_files(f[left_dir]), left_ok, "ScanningRight")
    \o (IF ~left_ok THEN <<>>
        ELSE scan_messages(collect_files(f[right_dir]), right_ok, "ComparingFiles"))
    \o (IF ~left_ok \/ ~right_ok THEN <<>>
        ELSE compare_messages(left_dir, right_dir, collect_files(f[left_dir]),
                              collect_files(f[right_dir]), f[left_dir], f[right_dir]))

\* thread w, having computed the messages `out`, sends the first of them at
\* once and keeps the rest; it returns after sending a terminal message
Emit(w, me, out) ==
  /\ workers' = [workers EXCEPT ![w] =
        IF Len(out) = 1 /\ me.pc = "done" THEN ExitedWorker
        ELSE [me EXCEPT !.outbox = Tail(out)]]
  /\ channels' = [channels EXCEPT
        ![w].queue = IF channels[w].ended THEN @ ELSE Append(@, Head(out)),
        ![w].sent = IF channels[w].ended THEN @ ELSE Append(@, Head(out).type)]

WorkerBegin(w) ==
  /\ workers[w].pc = "begin"
  /\ Emit(w, [workers[w] EXCEPT !.pc = "scan_left"], begin_messages)
  /\ UNCHANGED <<fs, app, exited, fs_changes, copies, events>>

\* collect_files_with_progress on the left root; io_ok = FALSE: an entry fails
WorkerScanLeft(w, io_ok) ==
  /\ workers[w].pc = "scan_left"
  /\ workers[w].outbox = <<>>
  /\ LET files == collect_files(fs[workers[w].left_dir])
     IN Emit(w, IF io_ok THEN [workers[w] EXCEPT !.pc = "scan_right", !.left_files = files]
                ELSE [workers[w] EXCEPT !.pc = "done"],
             scan_messages(files, io_ok, "ScanningRight"))
  /\ UNCHANGED <<fs, app, exited, fs_changes, copies, events>>

WorkerScanRight(w, io_ok) ==
  /\ workers[w].pc = "scan_right"
  /\ workers[w].outbox = <<>>
  /\ LET files == collect_files(fs[workers[w].right_dir])
     IN Emit(w, IF io_ok THEN [workers[w] EXCEPT !.pc = "compare", !.right_files = files]
                ELSE [workers[w] EXCEPT !.pc = "done"],
             scan_messages(files, io_ok, "ComparingFiles"))
  /\ UNCHANGED <<fs, app, exited, fs_changes, copies, events>>

\* compare_trees_with_progress and the end of the closure
WorkerCompare(w) ==
  /\ workers[w].pc = "compare"
  /\ workers[w].outbox = <<>>
  /\ LET me == workers[w]
     IN Emit(w, [me EXCEPT !.pc = "done"],
             compare_messages(me.left_dir, me.right_dir, me.left_files, me.right_files,
                              fs[me.left_dir], fs[me.right_dir]))
  /\ UNCHANGED <<fs, app, exited, fs_changes, copies, events>>

\* tx.send of the next message
WorkerSend(w) ==
  /\ workers[w].outbox # <<>>
  /\ Emit(w, workers[w], workers[w].outbox)
  /\ UNCHANGED <<fs, app, exited, fs_changes, copies, events>>

\* ------------------------------------------------------------------------
\* Interactive loop (run_app): one action per event handled
\* ------------------------------------------------------------------------
\* a handler that only changes the App
Handle(after) ==
  /\ ~exited
  /\ events < MaxEvents
  /\ app' = after
  /\ events' = events + 1
  /\ UNCHANGED <<fs, workers, channels, exited, fs_changes, copies>>

\* a handler that may call start_refresh
HandleRefresh(after) ==
  /\ ~exited
  /\ events < MaxEvents
  /\ app' = after
  /\ events' = events + 1
  /\ Spawning(app, after, TRUE)
  /\ UNCHANGED <<fs, exited, fs_changes, copies>>

\* the messages try_recv hands to check_refresh_progress before its loop
\* breaks: all queued ones
Drained(queue) == queue

\* check_refresh_progress at the top of the loop
Tick ==
  /\ ~exited
  /\ app.refresh_rx
  /\ channels[CurrentChannel].queue # <<>>
  /\ app' = check_refresh_progress(app, Drained(channels[CurrentChannel].queue))
  /\ channels' = [channels EXCEPT ![CurrentChannel] =
        IF app'.refresh_rx
        THEN [@ EXCEPT !.queue = <<>>,
                       !.received = @ \o [i \in 1..Len(channels[CurrentChannel].queue) |->
                                            channels[CurrentChannel].queue[i].type]]
        ELSE EndedChannel]
  /\ UNCHANGED <<fs, workers, exited, fs_changes, copies, events>>

\* Esc or q: cancel_copy in the confirmation, else run_app returns and the
\* process (with its threads) ends
KeyEsc ==
  /\ ~exited
  /\ events < MaxEvents
  /\ events' = events + 1
  /\ IF app.mode = "CopyConfirm"
     THEN app' = cancel_copy(app) /\ UNCHANGED <<exited, workers, channels>>
     ELSE exited' = TRUE /\ workers' = <<>> /\ channels' = <<>> /\ UNCHANGED app
  /\ UNCHANGED <<fs, fs_changes, copies>>

\* the carry without the clamp to the newly active list
carried_selection_unclamped(from_selected, to_items, to_selected) ==
  IF from_selected = NoneVal THEN to_selected ELSE from_selected

\* the newly active panel takes over the other panel's index, clamped
carried_selection(from_selected, to_items, to_selected) ==
  IF from_selected = NoneVal THEN to_selected
  ELSE IF from_selected < Len(to_items) THEN from_selected
  ELSE IF to_items # <<>> THEN Len(to_items) - 1
  ELSE to_selected

KeyLeft ==
  /\ app.mode = "DirectoryView"
  /\ Handle([app EXCEPT
       !.left_list_state = IF app.active_panel = 1
                           THEN carried_selection(app.right_list_state, app.left_items, @)
                           ELSE @,
       !.active_panel = 0])

KeyRight ==
  /\ app.mode = "DirectoryView"
  /\ Handle([app EXCEPT
       !.right_list_state = IF app.active_panel = 0
                            THEN carried_selection(app.left_list_state, app.right_items, @)
                            ELSE @,
       !.active_panel = 1])

KeyUp == app.mode = "DirectoryView" /\ Handle(move_selection(app, -1))

KeyDown == app.mode = "DirectoryView" /\ Handle(move_selection(app, 1))

KeyPageUp == app.mode = "DirectoryView" /\ Handle(move_selection(app, 0 - calculate_half_page(app)))

KeyPageDown == app.mode = "DirectoryView" /\ Handle(move_selection(app, calculate_half_page(app)))

KeyCtrlHome == app.mode = "DirectoryView" /\ Handle(scroll_to_top(app))

KeyCtrlEnd == app.mode = "DirectoryView" /\ Handle(scroll_to_bottom(app))

\* keys 1, 2, 3 and the three filter buttons of the toolbar
SetFilter(filter) == Handle(set_filter(app, filter))

\* key + and the toolbar button
ExpandAll == Handle(expand_all(app))

\* key - and the toolbar button
CollapseAll == Handle(collapse_all(app))

\* key s and the toolbar button
SwapPanels == Handle(swap_panels(app))

KeyF5 == app.mode = "DirectoryView" /\ HandleRefresh(start_refresh(app))

ClickRefresh == HandleRefresh(start_refresh(app))

KeyCtrlR ==
  /\ app.mode = "DirectoryView" /\ app.active_panel = 0 /\ can_copy(app)
  /\ Handle(prepare_copy(app, fs))

KeyCtrlL ==
  /\ app.mode = "DirectoryView" /\ app.active_panel = 1 /\ can_copy(app)
  /\ Handle(prepare_copy(app, fs))

ClickCopy == can_copy(app) /\ Handle(prepare_copy(app, fs))

\* Enter in the directory view: toggle a folder row; a file row opens the
\* external editor, which leaves the App as it is
KeyEnterToggle ==
  /\ app.mode = "DirectoryView"
  /\ get_selected_item(app) # <<>>
  /\ Handle(IF get_selected_item(app)[1].is_dir THEN toggle_folder(app) ELSE app)

\* Enter in the copy confirmation: execute_copy; io_ok = FALSE: the copy
\* fails for a reason outside the two trees
KeyEnterCopy(io_ok) ==
  /\ ~exited
  /\ app.mode = "CopyConfirm"
  /\ copies < MaxCopies
  /\ events < MaxEvents
  /\ events' = events + 1
  /\ LET effect == IF app.copy_info = <<>> THEN [ok |-> TRUE, fs |-> fs]
                   ELSE copy_effect(app, fs, io_ok)
         after == execute_copy(app, effect.ok)
     IN /\ fs' = effect.fs
        /\ app' = after
        /\ Spawning(app, after, app.copy_info # <<>> /\ effect.ok)
  /\ copies' = copies + 1
  /\ UNCHANGED <<exited, fs_changes>>

\* ------------------------------------------------------------------------
\* Environment: another process changes one entry of one directory
\* ------------------------------------------------------------------------

\* tree t with path p set to entry e; what was below p goes when p stops
\* being a directory
SetEntry(t, p, e) ==
  [q \in DOMAIN t |-> IF q = p THEN e
                      ELSE IF IsPrefix(p, q) /\ e.kind # "dir" THEN NoEntry
                      ELSE t[q]]

FsChange(d, p, e) ==
  /\ ~exited
  /\ fs_changes < MaxFsChanges
  /\ fs[d][p] # e
  /\ Len(p) > 1 => fs[d][SubSeq(p, 1, Len(p) - 1)].kind = "dir"
  /\ fs' = [fs EXCEPT ![d] = SetEntry(@, p, e)]
  /\ fs_changes' = fs_changes + 1
  /\ UNCHANGED <<app, workers, channels, exited, copies, events>>

\* ------------------------------------------------------------------------
\* Spec: the whole application on small directories
\* ------------------------------------------------------------------------
\* the relative paths an entry may exist at
Paths == {<<97>>, <<99>>, <<99, 97>>, <<99, 255>>, <<255>>, <<255, 97>>}

\* what another process may do meanwhile: <<root, relative path, new entry>>
EnvChanges ==
  { <<DirB, <<97>>, NoEntry>>,           \* b/a is removed
    <<DirA, <<99, 97>>, NoEntry>>,       \* a/c/a is removed
    <<DirB, <<99, 97>>, DirEntry>>,      \* a directory b/c/a is created
    <<DirB, <<255>>, NoEntry>> }         \* b/\xff is removed

\* the directory pairs the tool is started on: <<left entries, right entries>>
Scenarios ==
  { \* a directory named like the left root, on both sides
    <<(<<97>> :> DirEntry), (<<97>> :> DirEntry)>>,
    \* a directory on both sides with two files on the left only, one of
    \* them with a name that is no valid UTF-8
    <<(<<99>> :> DirEntry) @@ (<<99, 97>> :> SmallFile(1)) @@ (<<99, 255>> :> SmallFile(1)),
      (<<99>> :> DirEntry)>>,
    \* a top-level directory of such a name, with a file on the left only
    <<(<<255>> :> DirEntry) @@ (<<255, 97>> :> SmallFile(1)), (<<255>> :> DirEntry)>> }

Init == \E sc \in Scenarios : Started(TwoTrees(TreeOf(Paths, sc[1]), TreeOf(Paths, sc[2])))

Next ==
  \/ Tick
  \/ KeyEsc
  \/ KeyLeft
  \/ KeyRight
  \/ KeyUp
  \/ KeyDown
  \/ KeyPageUp
  \/ KeyPageDown
  \/ KeyCtrlHome
  \/ KeyCtrlEnd
  \/ \E filter \in {"All", "Different", "DifferentNotOrphans"} : SetFilter(filter)
  \/ ExpandAll
  \/ CollapseAll
  \/ SwapPanels
  \/ KeyF5
  \/ ClickRefresh
  \/ KeyCtrlR
  \/ KeyCtrlL
  \/ ClickCopy
  \/ KeyEnterToggle
  \/ \E io_ok \in BOOLEAN : KeyEnterCopy(io_ok)
  \/ \E w \in 1..Len(workers) : WorkerBegin(w)
  \/ \E w \in 1..Len(workers), io_ok \in BOOLEAN : WorkerScanLeft(w, io_ok)
  \/ \E w \in 1..Len(workers), io_ok \in BOOLEAN : WorkerScanRight(w, io_ok)
  \/ \E w \in 1..Len(workers) : WorkerCompare(w)
  \/ \E w \in 1..Len(workers) : WorkerSend(w)
  \/ \E change \in EnvChanges : FsChange(change[1], change[2], change[3])

Spec == Init /\ [][Next]_vars

\* ------------------------------------------------------------------------
\* SpecBuild: the build pipeline on every pair of small directories
\* ------------------------------------------------------------------------
\* the relative paths of SpecBuild: a directory c with a child a and a child
\* whose name is no valid UTF-8, and a top-level directory of such a name
BuildPaths == {<<99>>, <<99, 97>>, <<99, 255>>, <<255>>, <<255, 97>>}

BuildEntries == {NoEntry, DirEntry, SmallFile(1), SmallFile(2)}

\* the directory trees of SpecBuild: directories only where something may be
\* below, one content for all files but c/a
BuildTrees ==
  {t \in [BuildPaths -> BuildEntries] :
     /\ WellFormed(t)
     /\ \A p \in BuildPaths : Len(p) = 2 => t[p].kind # "dir"
     /\ \A p \in BuildPaths : p # <<99, 97>> => t[p] # SmallFile(2)}

InitBuild == \E l \in BuildTrees, r \in BuildTrees : Started(TwoTrees(l, r))

\* F5, the whole run of the refresh thread, and the tick that drains its
\* channel, with nothing in between
RefreshRun(left_ok, right_ok) ==
  /\ ~exited
  /\ ~app.is_refreshing
  /\ app.spawned < MaxRefreshes
  /\ app' = check_refresh_progress(
               start_refresh(app),
               new_with_progress(fs, app.comparison.left_dir, app.comparison.right_dir,
                                 left_ok, right_ok))
  /\ workers' = Append(workers, ExitedWorker)
  /\ channels' = Append(channels, EndedChannel)
  /\ events' = events + 1
  /\ UNCHANGED <<fs, exited, fs_changes, copies>>

NextBuild == \E left_ok \in BOOLEAN, right_ok \in BOOLEAN : RefreshRun(left_ok, right_ok)

SpecBuild == InitBuild /\ [][NextBuild]_vars

\* --- shape of a snapshot -------------------------------------------------
RECURSIVE nodes_below(_)
\* the nodes below a node, at every depth
nodes_below(node) ==
  LET n == Len(node.children)
      sets == [i \in 1..n |-> {node.children[i]} \cup nodes_below(node.children[i])]
  IN UNION {sets[i] : i \in 1..n}

RECURSIVE sum_of(_)
sum_of(numbers) == IF numbers = <<>> THEN 0 ELSE Head(numbers) + sum_of(Tail(numbers))

RECURSIVE node_count(_, _)
\* how many nodes below `node` stand for the relative path `path` (a node's
\* path is compared as text, as the rows show it)
node_count(node, path) ==
  LET n == Len(node.children)
      hits == [i \in 1..n |->
                 (IF [k \in 1..Len(node.children[i].path) |-> to_string_lossy(node.children[i].path[k])]
                       = [k \in 1..Len(path) |-> to_string_lossy(path[k])]
                  THEN 1 ELSE 0) + node_count(node.children[i], path)]
  IN sum_of(hits)

RECURSIVE same_shape(_, _)
\* equal child count, and the i-th children agree on path and is_dir, at
\* every depth
same_shape(left, right) ==
  /\ Len(left.children) = Len(right.children)
  /\ \A i \in 1..Len(left.children) :
       /\ left.children[i].path = right.children[i].path
       /\ left.children[i].is_dir = right.children[i].is_dir
       /\ same_shape(left.children[i], right.children[i])

\* the relative paths of the two scans of the filesystem, the roots' own
\* empty path aside
scanned_paths == (DOMAIN collect_files(fs[DirA]) \cup DOMAIN collect_files(fs[DirB])) \ {<<>>}

\* C1: in every snapshot of the build pipeline (initial build or refresh)
\* every scanned relative path has exactly one node in each tree and the two
\* trees have the same shape: equal child count, and the i-th children have
\* the same relative path and is-directory flag, at every depth.
C1_IdenticalShape ==
  /\ same_shape(app.comparison.left_tree, app.comparison.right_tree)
  /\ \A p \in scanned_paths :
       /\ node_count(app.comparison.left_tree, p) = 1
       /\ node_count(app.comparison.right_tree, p) = 1

\* ------------------------------------------------------------------------
\* Refresh protocol
\* ------------------------------------------------------------------------
\* the refreshes spawned whose terminal message has not been consumed
Outstanding == {c \in 1..Len(channels) : ~channels[c].ended}

IsTerminal(type) == type \in {"Complete", "Error"}

\* the message types of a queue
types_of(queue) == [i \in 1..Len(queue) |-> queue[i].type]

\* the tick at hand finds a message of this type in the channel
Queued(type) ==
  /\ ~exited
  /\ app.refresh_rx
  /\ channels # <<>>
  /\ \E i \in 1..Len(channels[CurrentChannel].queue) : channels[CurrentChannel].queue[i].type = type

\* the comparison carried by the queued Complete message
QueuedComparison ==
  LET queue == channels[CurrentChannel].queue
      i == CHOOSE k \in 1..Len(queue) : queue[k].type = "Complete"
  IN queue[i].comparison[1]

\* what the two panels show and where the user is in them
View(a) ==
  <<a.left_items, a.right_items, a.left_list_state, a.right_list_state,
    a.active_panel, a.filter_mode>>

RECURSIVE shape_and_status(_)
\* a tree without its expanded flags, names and sizes; the root's own path
\* (the root directory) is no part of the shape
shape_and_status(node) ==
  [i \in 1..Len(node.children) |->
     [path |-> node.children[i].path, is_dir |-> node.children[i].is_dir,
      status |-> node.children[i].status,
      children |-> shape_and_status(node.children[i])]]

\* C2: while a refresh is outstanding the shape and statuses of
\* App.comparison change only in the tick that consumes Complete, which
\* replaces both trees and both root paths together; a tick that consumes
\* only Progress messages leaves the comparison, both lists, both selections,
\* the active panel and the filter mode unchanged.
C2_SnapshotChangesOnlyAtComplete ==
  [][(~exited /\ app.is_refreshing) =>
       /\ (\/ shape_and_status(app'.comparison.left_tree) # shape_and_status(app.comparison.left_tree)
           \/ shape_and_status(app'.comparison.right_tree) # shape_and_status(app.comparison.right_tree))
          => /\ Queued("Complete")
             /\ Tick
             /\ shape_and_status(app'.comparison.left_tree) = shape_and_status(QueuedComparison.left_tree)
             /\ shape_and_status(app'.comparison.right_tree) = shape_and_status(QueuedComparison.right_tree)
             /\ app'.comparison.left_dir = QueuedComparison.left_dir
             /\ app'.comparison.right_dir = QueuedComparison.right_dir
       /\ (Tick /\ ~Queued("Complete") /\ ~Queued("Error"))
          => (app'.comparison = app.comparison /\ View(app') = View(app))]_vars

\* C3: at most one refresh worker is outstanding, and is_refreshing holds
\* exactly when one is, which is exactly when refresh_rx holds a receiver
\* (that of the outstanding worker's channel).
C3_OneOutstandingWorker ==
  ~exited =>
    /\ Cardinality(Outstanding) <= 1
    /\ app.is_refreshing <=> Outstanding # {}
    /\ app.is_refreshing <=> app.refresh_rx
    /\ app.refresh_rx => Outstanding = {CurrentChannel}

\* a second refresh is outstanding after the first has ended and a copy was
\* executed
C3_Witness ==
  /\ ~exited
  /\ copies = 1
  /\ app.spawned = 2
  /\ app.is_refreshing
  /\ Outstanding = {2}

\* C4: start_refresh while a refresh is outstanding changes nothing: the App
\* is as before (progress text and percentage, comparison, selections, saved
\* state), no thread is spawned and the channel is kept.
C4_StartWhileRefreshingIsNoOp ==
  [][(~exited /\ app.is_refreshing) =>
       /\ start_refresh(app) = app
       /\ (KeyF5 \/ ClickRefresh) =>
            /\ app' = app
            /\ workers' = workers
            /\ Len(channels') = Len(channels)
            /\ \A c \in 1..Len(channels) :
                 /\ channels'[c].queue = channels[c].queue
                 /\ channels'[c].ended = channels[c].ended]_vars

\* start_refresh was called while the refresh now outstanding was running
C4_Witness == ~exited /\ \E c \in Outstanding : channels[c].refused

\* C5: every refresh sends exactly one terminal message and sends it last;
\* the messages are consumed in the order sent, so every Progress message is
\* consumed before the terminal one; once the terminal message is consumed
\* the thread has returned, nothing is left in the channel and the receiver
\* is gone, so nothing more of that refresh is applied.
C5_OneTerminalLast ==
  \A c \in 1..Len(channels) :
    /\ \A i \in 1..Len(channels[c].sent) :
         IsTerminal(channels[c].sent[i]) => i = Len(channels[c].sent)
    /\ (workers[c] = ExitedWorker /\ ~channels[c].ended)
         => (channels[c].sent # <<>> /\ IsTerminal(channels[c].sent[Len(channels[c].sent)]))
    /\ channels[c].received \o types_of(channels[c].queue) = channels[c].sent
    /\ \A i \in 1..Len(channels[c].received) : ~IsTerminal(channels[c].received[i])
    /\ channels[c].ended => (workers[c] = ExitedWorker /\ channels[c].queue = <<>>)
    /\ (c = Len(channels) /\ channels[c].ended) => ~app.refresh_rx

\* the thread has sent its terminal message and returned, after Progress
\* messages that were already consumed
C5_Witness ==
  \E c \in 1..Len(channels) :
    /\ ~channels[c].ended
    /\ workers[c] = ExitedWorker
    /\ channels[c].received # <<>>
    /\ channels[c].queue # <<>>
    /\ IsTerminal(channels[c].queue[Len(channels[c].queue)].type)

\* C6: the tick that consumes an Error message leaves the snapshot, both
\* lists, both selections, the active panel and the filter mode as they
\* were, clears is_refreshing, and the next start_refresh spawns a worker.
C6_ErrorKeepsSnapshot ==
  [][(Queued("Error") /\ Tick) =>
       /\ app'.comparison = app.comparison
       /\ View(app') = View(app)
       /\ ~app'.is_refreshing
       /\ start_refresh(app').spawned = app'.spawned + 1
       /\ start_refresh(app').is_refreshing]_vars

\* an Error message has just been consumed
C6_Witness ==
  /\ ~exited
  /\ ~app.is_refreshing
  /\ app.refresh_progress.tag = "RefreshFailed"
  /\ channels # <<>>
  /\ channels[Len(channels)].ended

\* ------------------------------------------------------------------------
\* Reconciliation
\* ------------------------------------------------------------------------
RECURSIVE flags_kept(_, _)
\* every directory of `current` that the lock-step walk matches to a
\* directory of `old` has the expanded flag of that directory
flags_kept(current, old) ==
  \A i \in 1..Len(current.children) :
    LET child == current.children[i]
        k == saved_child_position(old, child)
    IN k # 0 =>
         /\ child.is_dir => child.expanded = old.children[k].expanded
         /\ flags_kept(child, old.children[k])

\* C7: whenever a refresh completes, however it was started, every non-root
\* directory of a new tree that the lock-step walk matches by (relative path,
\* is-directory) to a directory of the tree as it was when the refresh
\* started has that directory's expanded flag after the Complete tick.
C7_FlagsKeptByEveryRefresh ==
  [][(Queued("Complete") /\ Tick) =>
       /\ flags_kept(app'.comparison.left_tree, channels[CurrentChannel].old_trees[1])
       /\ flags_kept(app'.comparison.right_tree, channels[CurrentChannel].old_trees[2])]_vars

\* the selection the clamp of a saved index against a list gives
clamped(saved, items) ==
  IF saved < Len(items) THEN saved ELSE IF items # <<>> THEN 0 ELSE NoneVal

\* C8: after the reconciliation of a completed refresh each panel's
\* selection is its saved index when that is smaller than the length of the
\* recomputed list, else index 0 when the list is non-empty, else nothing.
C8_SelectionClamped ==
  [][(Queued("Complete") /\ Tick /\ app.saved_expansion_state # <<>>) =>
       /\ app.saved_left_selection # NoneVal
            => app'.left_list_state = clamped(app.saved_left_selection, app'.left_items)
       /\ app.saved_right_selection # NoneVal
            => app'.right_list_state = clamped(app.saved_right_selection, app'.right_items)]_vars

\* the directories below `new` keep collapsed what was collapsed below `old`
\* and are collapsed where `old` had no directory of that path
collapsed_kept(new, old) ==
  \A n \in nodes_below(new) :
    n.is_dir =>
      /\ (\E o \in nodes_below(old) : o.path = n.path /\ o.is_dir /\ ~o.expanded) => ~n.expanded
      /\ (~\E o \in nodes_below(old) : o.path = n.path /\ o.is_dir) => ~n.expanded

\* C9: after reconciliation a directory that was collapsed in the captured
\* trees and still exists is collapsed, and a directory the captured trees
\* did not have (same path, is-directory) is collapsed.
C9_CollapsedStaysCollapsed ==
  [][(Queued("Complete") /\ Tick /\ app.saved_expansion_state # <<>>) =>
       /\ collapsed_kept(app'.comparison.left_tree, app.saved_expansion_state[1])
       /\ collapsed_kept(app'.comparison.right_tree, app.saved_expansion_state[2])]_vars

\* C10: in every reachable state both root nodes are expanded.
C10_RootsExpanded ==
  ~exited => (app.comparison.left_tree.expanded /\ app.comparison.right_tree.expanded)

\* ------------------------------------------------------------------------
\* Status propagation
\* ------------------------------------------------------------------------
\* the status a set of child statuses gives their directory
status_of_children(statuses) ==
  IF "Different" \in statuses THEN "Different"
  ELSE IF {"LeftOnly", "RightOnly"} \subseteq statuses THEN "Different"
  ELSE IF {"LeftOnly", "Same"} \subseteq statuses THEN "Different"
  ELSE IF {"RightOnly", "Same"} \subseteq statuses THEN "Different"
  ELSE IF statuses = {"LeftOnly"} THEN "LeftOnly"
  ELSE IF statuses = {"RightOnly"} THEN "RightOnly"
  ELSE "Same"

\* the two trees as a builder leaves them before update_folder_status, for
\* the directories as they are now
before_propagation(with_progress) ==
  LET left_files == collect_files(fs[app.comparison.left_dir])
      right_files == collect_files(fs[app.comparison.right_dir])
      start == [left |-> root_node(app.comparison.left_dir),
                right |-> root_node(app.comparison.right_dir),
                msgs |-> <<>>, processed |-> 0, err |-> FALSE]
      acc == compare_loop(sorted_paths(DOMAIN left_files \cup DOMAIN right_files), 1, start,
                          left_files, right_files,
                          fs[app.comparison.left_dir], fs[app.comparison.right_dir], with_progress)
  IN <<sort_tree_recursive(acc.left), sort_tree_recursive(acc.right)>>

RECURSIVE propagated(_, _)
\* `after` is `before` with statuses propagated: the same nodes in the same
\* order; a directory with children has the status its children's statuses
\* in `after` give; every other node has its status of `before`
propagated(after, before) ==
  /\ after.path = before.path
  /\ after.is_dir = before.is_dir
  /\ Len(after.children) = Len(before.children)
  /\ IF after.is_dir /\ after.children # <<>>
     THEN after.status
            = status_of_children({after.children[i].status : i \in 1..Len(after.children)})
     ELSE after.status = before.status
  /\ \A i \in 1..Len(after.children) : propagated(after.children[i], before.children[i])

\* C11: after status propagation every directory with at least one child has
\* the status its immediate children's final statuses give (Different for a
\* Different child or a mix of LeftOnly/RightOnly, LeftOnly/Same or
\* RightOnly/Same; LeftOnly, RightOnly or Same when all children are), and
\* a directory without children and every file keep the builder's status.
C11_StatusFromChildren ==
  \E with_progress \in BOOLEAN :
    /\ propagated(app.comparison.left_tree, before_propagation(with_progress)[1])
    /\ propagated(app.comparison.right_tree, before_propagation(with_progress)[2])

\* a refresh has completed and a directory holding a LeftOnly file next to a
\* Same file is Different
C11_Witness ==
  /\ app.spawned > 0
  /\ app.refresh_progress.tag = ""
  /\ \E n \in nodes_below(app.comparison.left_tree) :
       /\ n.is_dir
       /\ {n.children[i].status : i \in 1..Len(n.children)} = {"LeftOnly", "Same"}
       /\ n.status = "Different"

\* ------------------------------------------------------------------------
\* Classification by the builder
\* ------------------------------------------------------------------------
\* the status a builder's match gives the scanned path p of the directories
\* as they are now
builder_status(with_progress, p) ==
  LET left_meta == map_get(collect_files(fs[app.comparison.left_dir]), p)
      right_meta == map_get(collect_files(fs[app.comparison.right_dir]), p)
      live_l == EntryAt(fs[app.comparison.left_dir], p)
      live_r == EntryAt(fs[app.comparison.right_dir], p)
  IN IF with_progress THEN progress_status(left_meta, right_meta, live_l, live_r)
     ELSE initial_status(left_meta, right_meta, live_l, live_r)

\* the Equality Oracle reports the two files at p equal
oracle_equal(p) ==
  LET l == EntryAt(fs[app.comparison.left_dir], p)
      r == EntryAt(fs[app.comparison.right_dir], p)
  IN meta_is_file(l) /\ meta_is_file(r) /\ files_are_same(l, r, l, r) = "true"

\* status is what the classification rule gives path p
classified(p, status) ==
  LET l == EntryAt(fs[app.comparison.left_dir], p)
      r == EntryAt(fs[app.comparison.right_dir], p)
  IN /\ (l.kind # "none" /\ r.kind = "none") => status = "LeftOnly"
     /\ (l.kind = "none" /\ r.kind # "none") => status = "RightOnly"
     /\ (meta_is_dir(l) /\ meta_is_dir(r)) => status = "Same"
     /\ (meta_is_file(l) /\ meta_is_file(r))
          => status = (IF oracle_equal(p) THEN "Same" ELSE "Different")
     /\ status = "Same" => ((meta_is_dir(l) /\ meta_is_dir(r)) \/ oracle_equal(p))

\* C12: each builder gives every non-root path of the union LeftOnly or
\* RightOnly when it is on one side only, Same when it is a directory on both
\* sides, the oracle's verdict when it is a file on both sides, and Same to
\* no path that is neither a directory on both sides nor equal by the oracle;
\* the nodes of that path carry this status before propagation.
C12_BuilderClassification ==
  \A with_progress \in BOOLEAN : \A p \in scanned_paths :
    /\ classified(p, builder_status(with_progress, p))
    /\ \A side \in 1..2 : \A n \in nodes_below(before_propagation(with_progress)[side]) :
         n.path = p => n.status = builder_status(with_progress, p)

\* ------------------------------------------------------------------------
\* SpecOracle: the build pipeline on one file per side, of every stage
\* ------------------------------------------------------------------------
\* the one relative path of SpecOracle: a file "f"
OraclePath == <<102>>

\* lengths on both sides of each stage boundary
OracleLengths ==
  {0, 10, SmallFileLimit - 1, SmallFileLimit, MediumFileLimit - 1, MediumFileLimit, 5000000}

\* contents: the first bytes are one of three (the third has the checksum
\* contribution of the first), the bytes after SmallFileLimit one of two
OracleFiles ==
  {e \in [kind : {"file"}, len : OracleLengths, head : {0, 1, 2, 1 + CrcModulus},
          tail : {0, 1, 2}, ok : {TRUE}] :
     /\ (e.head = 0) <=> (e.len = 0)
     /\ (e.tail = 0) <=> (e.len <= SmallFileLimit)}

InitOracle ==
  \E l \in OracleFiles, r \in OracleFiles :
    Started(TwoTrees(TreeOf({OraclePath}, OraclePath :> l), TreeOf({OraclePath}, OraclePath :> r)))

SpecOracle == InitOracle /\ [][NextBuild]_vars

\* the status the staging gives two regular files
staged_status(l, r) ==
  IF l.len # r.len THEN "Different"
  ELSE IF l.len = 0 THEN "Same"
  ELSE IF l.len < 4096 THEN (IF l = r THEN "Same" ELSE "Different")
  ELSE IF l.len < 1048576 THEN (IF crc32(l) = crc32(r) THEN "Same" ELSE "Different")
  ELSE (IF l.head = r.head THEN "Same" ELSE "Different")

\* C13: for two existing regular files the verdict follows the stage of the
\* scanned length L: unequal lengths differ; L = 0 is equal; 0 < L < 4096
\* compares all bytes; 4096 <= L < 1048576 compares checksums of the whole
\* content; L >= 1048576 compares the first 4096 bytes only.
C13_StagedByLength ==
  LET l == fs[DirA][OraclePath]
      r == fs[DirB][OraclePath]
  IN /\ Len(app.comparison.left_tree.children) = 1
     /\ Len(app.comparison.right_tree.children) = 1
     /\ app.comparison.left_tree.children[1].status = staged_status(l, r)
     /\ app.comparison.right_tree.children[1].status = staged_status(l, r)

\* a refresh has compared two files of 1048576 bytes that agree on their
\* first 4096 bytes and differ afterwards, and reports them equal
C13_Witness ==
  /\ app.spawned > 0
  /\ app.refresh_progress.tag = ""
  /\ fs[DirA][OraclePath].len = 1048576
  /\ fs[DirB][OraclePath].len = 1048576
  /\ fs[DirA][OraclePath].head = fs[DirB][OraclePath].head
  /\ fs[DirA][OraclePath].tail # fs[DirB][OraclePath].tail
  /\ app.comparison.left_tree.children[1].status = "Same"

\* ------------------------------------------------------------------------
\* SpecRace: a refresh of one file per side while the right file changes
\* ------------------------------------------------------------------------
\* the right file is removed, or stays and can no longer be read
RaceChanges ==
  { <<DirB, OraclePath, NoEntry>>,
    <<DirB, OraclePath, FileEntry(10, 1, 0, FALSE)>>,
    <<DirB, OraclePath, FileEntry(10, 2, 0, FALSE)>> }

InitRace ==
  \E l \in {SmallFile(1), SmallFile(2)}, r \in {SmallFile(1), SmallFile(2)} :
    Started(TwoTrees(TreeOf({OraclePath}, OraclePath :> l), TreeOf({OraclePath}, OraclePath :> r)))

NextRace ==
  \/ Tick
  \/ KeyF5
  \/ \E w \in 1..Len(workers) : WorkerBegin(w)
  \/ \E w \in 1..Len(workers), io_ok \in BOOLEAN : WorkerScanLeft(w, io_ok)
  \/ \E w \in 1..Len(workers), io_ok \in BOOLEAN : WorkerScanRight(w, io_ok)
  \/ \E w \in 1..Len(workers) : WorkerCompare(w)
  \/ \E w \in 1..Len(workers) : WorkerSend(w)
  \/ \E change \in RaceChanges : FsChange(change[1], change[2], change[3])

SpecRace == InitRace /\ [][NextRace]_vars

\* the message types thread w has sent and has yet to send
all_types(w, ws, cs) == cs[w].sent \o types_of(ws[w].outbox)

\* thread w is about to compare a file that both scans found and that is
\* gone or unreadable by now
compares_failing_file(w) ==
  /\ workers[w].pc = "compare"
  /\ workers[w].outbox = <<>>
  /\ \E p \in DOMAIN workers[w].left_files \cap DOMAIN workers[w].right_files :
       /\ meta_is_file(workers[w].left_files[p])
       /\ meta_is_file(workers[w].right_files[p])
       /\ \E d \in {workers[w].left_dir, workers[w].right_dir} :
            EntryAt(fs[d], p).kind = "none" \/ ~EntryAt(fs[d], p).ok

\* C14: when a file present in both scans cannot be inspected or read at the
\* time the oracle runs, the comparison ends with an error: the refresh sends
\* Error and no Complete, so no tree with a status for that file is returned.
C14_CompareFailureIsError ==
  [][\A w \in 1..Len(workers) :
       (compares_failing_file(w) /\ WorkerCompare(w)) =>
         /\ \E i \in 1..Len(all_types(w, workers', channels')) :
              all_types(w, workers', channels')[i] = "Error"
         /\ \A i \in 1..Len(all_types(w, workers', channels')) :
              all_types(w, workers', channels')[i] # "Complete"]_vars

\* C15: when an entry fails during the scan of either root the scan yields
\* no mapping, the thread builds no trees and ends with Error as its last
\* message (no Complete), and after a failed left scan the right root is
\* not scanned.
C15_ScanFailureIsError ==
  [][\A w \in 1..Len(workers) :
       (WorkerScanLeft(w, FALSE) \/ WorkerScanRight(w, FALSE)) =>
         /\ workers'[w] = ExitedWorker
         /\ channels'[w].sent = Append(channels[w].sent, "Error")
         /\ \A i \in 1..Len(channels[w].sent) : channels[w].sent[i] = "Progress"
         /\ workers[w].pc = "scan_left" => workers[w].right_files = NoFiles]_vars

\* the left scan of a refresh has failed: Error follows the two opening
\* texts and the thread has returned
C15_Witness ==
  \E c \in 1..Len(channels) :
    /\ ~channels[c].ended
    /\ channels[c].sent = <<"Progress", "Progress", "Error">>
    /\ workers[c] = ExitedWorker

\* ------------------------------------------------------------------------
\* Child order
\* ------------------------------------------------------------------------
\* the text a node is ordered by: its name, or the last component of its
\* path when the name is blank, without regard to case
order_key(n) == to_lowercase(IF n.name = <<>> THEN lossy_file_name(n.path) ELSE n.name)

RECURSIVE children_ordered(_)
\* at every depth: directories before files, and non-decreasing keys within
\* a kind
children_ordered(node) ==
  /\ \A i \in 1..Len(node.children), j \in 1..Len(node.children) :
       i < j =>
         /\ node.children[j].is_dir => node.children[i].is_dir
         /\ node.children[i].is_dir = node.children[j].is_dir
              => ~SeqLess(order_key(node.children[j]), order_key(node.children[i]))
  /\ \A i \in 1..Len(node.children) : children_ordered(node.children[i])

RECURSIVE same_path_order(_, _)
\* the children's paths come in the same order in both trees, at every depth
same_path_order(left, right) ==
  /\ [i \in 1..Len(left.children) |-> left.children[i].path]
       = [i \in 1..Len(right.children) |-> right.children[i].path]
  /\ \A i \in 1..Len(left.children) : same_path_order(left.children[i], right.children[i])

\* C16: in every snapshot every node's children have all directories before
\* all files and, within a kind, non-decreasing case-insensitive names (a
\* blank-named placeholder counting by the last component of its path), and
\* the paths come in the same order in both trees.
C16_ChildrenOrdered ==
  /\ children_ordered(app.comparison.left_tree)
  /\ children_ordered(app.comparison.right_tree)
  /\ same_path_order(app.comparison.left_tree, app.comparison.right_tree)

\* C17: a comparison of unchanged directories gives every path the status
\* and is-directory flag the comparison before it gave, be that the initial
\* build or an earlier refresh.
C17_SameStatusTwice ==
  [][RefreshRun(TRUE, TRUE) =>
       /\ shape_and_status(app'.comparison.left_tree) = shape_and_status(app.comparison.left_tree)
       /\ shape_and_status(app'.comparison.right_tree) = shape_and_status(app.comparison.right_tree)]_vars

\* ------------------------------------------------------------------------
\* Selection
\* ------------------------------------------------------------------------
\* the selection of the panel that is not active
opposite_selected(a) == IF a.active_panel = 0 THEN a.right_list_state ELSE a.left_list_state

\* C18: after move_selection on a non-empty active list, whatever the delta
\* and the selection before, the active panel's selection is an index of the
\* active list and the other panel's selection is that index clamped to its
\* own list (when that list is non-empty).
C18_MoveKeepsSelectionInRange ==
  [][((KeyUp \/ KeyDown \/ KeyPageUp \/ KeyPageDown) /\ active_items(app) # <<>>) =>
       /\ active_selected(app') \in 0..(Len(active_items(app')) - 1)
       /\ opposite_items(app') # <<>>
            => opposite_selected(app')
                 = Min(active_selected(app'), Len(opposite_items(app')) - 1)]_vars

\* ------------------------------------------------------------------------
\* Expansion
\* ------------------------------------------------------------------------
RECURSIVE set_expanded_at(_, _, _)
\* the tree with the expanded flag of the node at the relative path `path`
\* set to `value` and every other node as it is
set_expanded_at(node, path, value) ==
  [node EXCEPT !.children =
     [i \in 1..Len(node.children) |->
        set_expanded_at(IF node.children[i].path = path
                        THEN [node.children[i] EXCEPT !.expanded = value]
                        ELSE node.children[i],
                        path, value)]]

\* the expanded flag of the node the selected row shows
selected_node_expanded(a) ==
  (CHOOSE n \in nodes_below(active_tree(a)) : n.path = get_selected_item(a)[1].path).expanded

\* C19: toggle_folder on a selected directory row flips the expanded flag of
\* the node at the selected relative path in the active tree, gives the node
\* at that path in the other tree the same value, leaves every other flag
\* alone and recomputes both lists; on a file row or without a valid
\* selection it changes nothing.
C19_ToggleFlipsSelectedOnly ==
  [][/\ (get_selected_item(app) = <<>> \/ ~get_selected_item(app)[1].is_dir)
          => toggle_folder(app) = app
     /\ (KeyEnterToggle /\ get_selected_item(app)[1].is_dir) =>
          /\ active_tree(app')
               = set_expanded_at(active_tree(app), get_selected_item(app)[1].path,
                                 ~selected_node_expanded(app))
          /\ opposite_tree(app')
               = set_expanded_at(opposite_tree(app), get_selected_item(app)[1].path,
                                 ~selected_node_expanded(app))
          /\ app' = update_file_lists(app')]_vars

\* ------------------------------------------------------------------------
\* Flattened lists
\* ------------------------------------------------------------------------
FilterModes == {"All", "Different", "DifferentNotOrphans"}

RECURSIVE positions(_)
\* every node of a tree as the sequence of child indices leading to it
positions(node) ==
  {<<>>} \cup UNION {{<<i>> \o q : q \in positions(node.children[i])} : i \in 1..Len(node.children)}

RECURSIVE node_at(_, _)
node_at(node, pos) == IF pos = <<>> THEN node ELSE node_at(node.children[Head(pos)], Tail(pos))

\* a status passes a filter mode
passes(status, filter) ==
  \/ filter = "All"
  \/ filter = "Different" /\ status \in {"Different", "LeftOnly", "RightOnly"}
  \/ filter = "DifferentNotOrphans" /\ status = "Different"

\* the non-root positions whose ancestors are all expanded directories and
\* whose node passes the filter
visible_positions(tree, filter) ==
  {pos \in positions(tree) :
     /\ pos # <<>>
     /\ \A k \in 0..(Len(pos) - 1) :
          node_at(tree, SubSeq(pos, 1, k)).is_dir /\ node_at(tree, SubSeq(pos, 1, k)).expanded
     /\ passes(node_at(tree, pos).status, filter)}

\* the nodes a list of rows shows, in its order
shown(items) ==
  [k \in 1..Len(items) |->
     <<items[k].path, items[k].status, items[k].is_dir, items[k].size, items[k].modified>>]

\* the visible nodes in depth-first pre-order, each once
visible_nodes(tree, filter) ==
  LET order == sorted_paths(visible_positions(tree, filter))
  IN [k \in 1..Len(order) |->
        LET n == node_at(tree, order[k])
        IN <<n.path, n.status, n.is_dir, n.size, n.modified>>]

\* C20: for each tree and each filter mode the flattened list holds exactly
\* the non-root nodes whose ancestors are all expanded directories and which
\* pass the filter, once each, in depth-first pre-order; the two lists of the
\* App are these lists for the current trees and filter mode.
C20_ListIsVisibleNodes ==
  /\ \A filter \in FilterModes :
       /\ shown(flatten_tree_with_filter(app.comparison.left_tree, 0, filter))
            = visible_nodes(app.comparison.left_tree, filter)
       /\ shown(flatten_tree_with_filter(app.comparison.right_tree, 0, filter))
            = visible_nodes(app.comparison.right_tree, filter)
  /\ shown(app.left_items) = visible_nodes(app.comparison.left_tree, app.filter_mode)
  /\ shown(app.right_items) = visible_nodes(app.comparison.right_tree, app.filter_mode)

\* the lists were recomputed under the Different filter with a directory
\* expanded: its rows follow it
C20_Witness ==
  /\ app.filter_mode = "Different"
  /\ events > 1
  /\ Len(app.left_items) >= 3
  /\ \E n \in nodes_below(app.comparison.left_tree) : n.is_dir /\ n.expanded

\* ------------------------------------------------------------------------
\* Copy requests
\* ------------------------------------------------------------------------
\* C21: a CopyInfo does not outlive one copy request: after execute_copy,
\* whether the copy succeeded or failed, and after cancel_copy, copy_info is
\* None and the mode is DirectoryView; a CopyInfo exists only while the
\* confirmation is shown.
C21_CopyInfoEndsWithRequest ==
  [][/\ (KeyEnterCopy(TRUE) \/ KeyEnterCopy(FALSE))
          => (app'.copy_info = <<>> /\ app'.mode = "DirectoryView")
     /\ (KeyEsc /\ app.mode = "CopyConfirm")
          => (app'.copy_info = <<>> /\ app'.mode = "DirectoryView")
     /\ app'.copy_info # <<>> => app'.mode = "CopyConfirm"]_vars

\* C22: prepare_copy, execute_copy (successful or failing) and cancel_copy
\* leave the comparison snapshot as it is: both trees with their statuses and
\* expanded flags and both root paths; the trees follow the copy only when a
\* later refresh completes.
C22_CopyKeepsSnapshot ==
  [][(\/ KeyCtrlR
      \/ KeyCtrlL
      \/ ClickCopy
      \/ KeyEnterCopy(TRUE)
      \/ KeyEnterCopy(FALSE)
      \/ (KeyEsc /\ app.mode = "CopyConfirm"))
       => app'.comparison = app.comparison]_vars

\* a directory was copied to the right and the refresh is under way: the
\* right tree still shows the copied file as missing
C22_Witness ==
  /\ copies = 1
  /\ fs_changes = 0
  /\ app.is_refreshing
  /\ app.mode = "DirectoryView"
  /\ \E n \in nodes_below(app.comparison.right_tree) :
       /\ n.status = "LeftOnly"
       /\ n.path \in DOMAIN fs[DirB]
       /\ fs[DirB][n.path].kind = "file"
  /\ \E n \in nodes_below(app.comparison.left_tree) : n.is_dir /\ n.expanded

\* the thread whose result the App is waiting for has not read a directory yet
scan_not_started(ws) ==
  /\ ws # <<>>
  /\ ws[Len(ws)].pc \in {"begin", "scan_left"}

\* C23: after every successful copy the next snapshot installed comes from a
\* refresh whose scan started after the copy finished: when execute_copy
\* returns the App is refreshing and the thread it waits for has not started
\* its scan, also when another refresh was in flight at the copy.
C23_RefreshScansAfterCopy ==
  [][((KeyEnterCopy(TRUE) \/ KeyEnterCopy(FALSE))
        /\ app.copy_info # <<>> /\ app'.copy_info = <<>>)
       => (app'.is_refreshing /\ app'.refresh_rx /\ scan_not_started(workers'))]_vars

\* ------------------------------------------------------------------------
\* One-sided directories
\* ------------------------------------------------------------------------
\* a path as the rows show it
lossy_path(path) == [k \in 1..Len(path) |-> to_string_lossy(path[k])]

\* the directories that exist under root `dir` and not under root `other`
one_sided_dirs(dir, other) ==
  {p \in DOMAIN fs[dir] : fs[dir][p].kind = "dir" /\ EntryAt(fs[other], p).kind = "none"}

\* the directory p of root `dir` and everything inside it
inside(dir, p) == {q \in DOMAIN fs[dir] : IsPrefix(p, q) /\ fs[dir][q].kind # "none"}

\* the nodes of a tree that stand for p or for something inside it
subtree_nodes(tree, p) ==
  {n \in nodes_below(tree) : IsPrefix(lossy_path(p), lossy_path(n.path))}

is_placeholder(n) == n.name = <<>> /\ n.size = NoneVal /\ n.modified = NoneVal

\* the directory p exists only under `dir`: `real` is the tree of that side,
\* `blank` the tree of the other side
one_sided(dir, p, real, blank, status) ==
  /\ \A n \in subtree_nodes(real, p) \cup subtree_nodes(blank, p) : n.status = status
  /\ \A n \in subtree_nodes(blank, p) : is_placeholder(n)
  /\ \A q \in inside(dir, p) :
       \E l \in nodes_below(real), r \in nodes_below(blank) :
         /\ l.path = q /\ r.path = q
         /\ l.name = lossy_file_name(q) /\ l.modified # NoneVal
         /\ l.is_dir = (fs[dir][q].kind = "dir") /\ r.is_dir = l.is_dir

\* C24: for a directory that exists only on the left, with everything inside
\* it, every node of the subtree is LeftOnly in both trees after propagation:
\* real nodes in the left tree, blank-named placeholders without size and
\* modification time at the same paths with the same is-directory flag in
\* the right tree; and the same with the sides exchanged and RightOnly.
C24_OneSidedSubtree ==
  /\ \A p \in one_sided_dirs(DirA, DirB) :
       one_sided(DirA, p, app.comparison.left_tree, app.comparison.right_tree, "LeftOnly")
  /\ \A p \in one_sided_dirs(DirB, DirA) :
       one_sided(DirB, p, app.comparison.right_tree, app.comparison.left_tree, "RightOnly")

\* ------------------------------------------------------------------------
\* Events during a refresh
\* ------------------------------------------------------------------------
\* the refresh in flight goes on as it was: same thread, same channel content
refresh_goes_on ==
  /\ ~exited'
  /\ app'.is_refreshing
  /\ app'.refresh_rx
  /\ workers' = workers
  /\ Len(channels') = Len(channels)
  /\ channels'[CurrentChannel].queue = channels[CurrentChannel].queue
  /\ channels'[CurrentChannel].sent = channels[CurrentChannel].sent
  /\ ~channels'[CurrentChannel].ended

\* C25: once start_refresh has spawned a thread no key or mouse event cancels
\* the refresh: is_refreshing stays true and the thread's result can still
\* be installed, until the terminal message is consumed; Esc during the
\* refresh included.
C25_NoEventCancelsRefresh ==
  [][(events' # events /\ app.is_refreshing) => refresh_goes_on]_vars

\* ------------------------------------------------------------------------
\* SpecPage: paging through a list of twelve rows at several terminal heights
\* ------------------------------------------------------------------------
\* twelve files a .. l, the same on both sides
PageFiles == [p \in {<<c>> : c \in 97..108} |-> SmallFile(1)]

\* the terminal heights a frame is drawn at
ViewportHeights == {4, 5, 24, 25, 26, 30}

InitPage == Started(TwoTrees(PageFiles, PageFiles))

\* draw_directory_view on a terminal of height h
Draw(h) ==
  /\ ~exited
  /\ app' = [app EXCEPT !.viewport_height = h]
  /\ UNCHANGED <<fs, workers, channels, exited, fs_changes, copies, events>>

NextPage ==
  \/ \E h \in ViewportHeights : Draw(h)
  \/ KeyPageUp
  \/ KeyPageDown
  \/ KeyUp
  \/ KeyDown

SpecPage == InitPage /\ [][NextPage]_vars

\* the selection of the active panel, None read as row 0
current_row(a) == IF active_selected(a) = NoneVal THEN 0 ELSE active_selected(a)

\* C26: PageUp and PageDown move the selection by 10 rows, clamped to the
\* list, as the usage text says, at every viewport height.
C26_PageMovesTenRows ==
  [][/\ KeyPageDown
          => active_selected(app') = Min(current_row(app) + 10, Len(active_items(app)) - 1)
     /\ KeyPageUp
          => active_selected(app') = Max(current_row(app) - 10, 0)]_vars

\* ------------------------------------------------------------------------
\* Polling tick
\* ------------------------------------------------------------------------
\* C27: a polling tick drains every message queued; when they are all
\* Progress messages, refresh_progress and refresh_percentage afterwards are
\* the text and the fraction of the last one queued, whatever the earlier
\* ones were, and the queue is empty.
C27_TickKeepsLastProgress ==
  [][(Tick /\ \A i \in 1..Len(channels[CurrentChannel].queue) :
                channels[CurrentChannel].queue[i].type = "Progress")
       => LET queue == channels[CurrentChannel].queue
              last == queue[Len(queue)]
          IN /\ app'.refresh_progress = last.text
             /\ app'.refresh_percentage = last.percentage
             /\ app'.is_refreshing
             /\ channels'[CurrentChannel].queue = <<>>
             /\ Len(channels'[CurrentChannel].received)
                  = Len(channels[CurrentChannel].received) + Len(queue)]_vars

\* the ticks so far have drained the three Progress messages up to the scan
\* of the right directory, and the popup shows the last of them
C27_Witness ==
  /\ app.is_refreshing
  /\ channels # <<>>
  /\ channels[CurrentChannel].queue = <<>>
  /\ channels[CurrentChannel].received = <<"Progress", "Progress", "Progress">>
  /\ app.refresh_progress = ProgressText("ScanningRight", 0, 0)
  /\ app.refresh_percentage = 1500

\* ------------------------------------------------------------------------
\* Panel switch
\* ------------------------------------------------------------------------
\* C28: Left and Right carry the index across: when the previously active
\* panel has selection i and the newly active list is not empty, the newly
\* active panel's selection becomes min(i, length - 1) of its own list, the
\* previously active panel's selection stays, and active_panel becomes the
\* target; the key of the panel that is active already changes nothing.
C28_SwitchCarriesIndex ==
  [][/\ (KeyRight /\ app.active_panel = 0
            /\ app.left_list_state # NoneVal /\ app.right_items # <<>>)
          => app' = [app EXCEPT
                       !.right_list_state = Min(app.left_list_state, Len(app.right_items) - 1),
                       !.active_panel = 1]
     /\ (KeyLeft /\ app.active_panel = 1
            /\ app.right_list_state # NoneVal /\ app.left_items # <<>>)
          => app' = [app EXCEPT
                       !.left_list_state = Min(app.right_list_state, Len(app.left_items) - 1),
                       !.active_panel = 0]
     /\ (KeyRight /\ app.active_panel = 1) => app' = app
     /\ (KeyLeft /\ app.active_panel = 0) => app' = app]_vars

\* the right panel became active with the last row of its shorter list
\* selected, the left panel keeping a row beyond that
C28_Witness ==
  /\ app.active_panel = 1
  /\ app.right_items # <<>>
  /\ app.left_list_state # NoneVal
  /\ app.left_list_state > Len(app.right_items) - 1
  /\ app.right_list_state = Len(app.right_items) - 1

\* ------------------------------------------------------------------------
\* Scanner result
\* ------------------------------------------------------------------------
\* the non-root paths of the union of a thread's two scans
non_root_union(w) ==
  (DOMAIN workers[w].left_files \cup DOMAIN workers[w].right_files) \ {<<>>}

\* C29: the mapping the scanner returns for a root never contains the empty
\* relative path of the root itself, so the number of paths the builder
\* reports ("Files to compare: n") and counts progress against is the number
\* of non-root paths in the union.
C29_ScanOmitsRoot ==
  \A w \in 1..Len(workers) :
    /\ <<>> \notin DOMAIN workers[w].left_files
    /\ <<>> \notin DOMAIN workers[w].right_files
    /\ \A i \in 1..Len(channels[w].queue) :
         LET text == channels[w].queue[i].text
         IN (workers[w].pc = "done" /\ text.tag \in {"FilesToCompare", "Progress"})
              => (IF text.tag = "FilesToCompare" THEN text.a ELSE text.b)
                   = Cardinality(non_root_union(w))

\* ------------------------------------------------------------------------
\* Tree building
\* ------------------------------------------------------------------------
\* the paths the builders iterate over, in their order
union_paths ==
  sorted_paths(DOMAIN collect_files(fs[app.comparison.left_dir])
                 \cup DOMAIN collect_files(fs[app.comparison.right_dir]))

\* the two roots after the first k paths of the loop
built_after(k, with_progress) ==
  compare_loop(SubSeq(union_paths, 1, k), 1,
               [left |-> root_node(app.comparison.left_dir),
                right |-> root_node(app.comparison.right_dir),
                msgs |-> <<>>, processed |-> 0, err |-> FALSE],
               collect_files(fs[app.comparison.left_dir]),
               collect_files(fs[app.comparison.right_dir]),
               fs[app.comparison.left_dir], fs[app.comparison.right_dir], with_progress)

RECURSIVE finds_last(_, _, _)
\* insert_into_tree would find a child for the last component and assign its
\* status again
finds_last(current, components, i) ==
  LET index == child_position(current, components[i])
  IN IF index = 0 THEN FALSE
     ELSE IF i = Len(components) THEN TRUE
     ELSE finds_last(current.children[index], components, i + 1)

\* no two children of a node, at any depth, share the last path component
distinct_children(tree) ==
  \A n \in {tree} \cup nodes_below(tree) :
    \A i, j \in 1..Len(n.children) :
      i # j => file_name(n.children[i].path) # file_name(n.children[j].path)

\* a node pushed for a component that is not the last of the inserted path:
\* it carries a name and no metadata
is_synthesized(n) == n.name # <<>> /\ n.modified = NoneVal

\* C30: during tree building each non-root path of the union gets its node
\* created once per tree and its status assigned exactly once, never
\* overwritten by a later insertion; no node has two children with the same
\* last path component; and a synthesized intermediate directory node has
\* status Same, is a directory and is not expanded until propagation.
C30_BuildInsertsOnce ==
  \A with_progress \in BOOLEAN :
    LET trees == before_propagation(with_progress)
    IN /\ \A k \in 1..Len(union_paths) :
            union_paths[k] # <<>> =>
              /\ ~finds_last(built_after(k - 1, with_progress).left, union_paths[k], 1)
              /\ ~finds_last(built_after(k - 1, with_progress).right, union_paths[k], 1)
              /\ node_count(trees[1], union_paths[k]) = 1
              /\ node_count(trees[2], union_paths[k]) = 1
              /\ \E n \in nodes_below(trees[1]) :
                   n.status = builder_status(with_progress, union_paths[k])
                     /\ lossy_path(n.path) = lossy_path(union_paths[k])
       /\ distinct_children(trees[1])
       /\ distinct_children(trees[2])
       /\ \A n \in nodes_below(trees[1]) \cup nodes_below(trees[2]) :
            is_synthesized(n) => (n.status = "Same" /\ n.is_dir /\ ~n.expanded)

\* ------------------------------------------------------------------------
\* SpecRaceLive: SpecRace with a loop that keeps polling and threads that run
\* ------------------------------------------------------------------------
\* thread w is inside compare_trees_with_progress
at_compare(w) == workers[w].pc = "compare" /\ workers[w].outbox = <<>>

\* run_app calls check_refresh_progress in every iteration of its loop; a
\* spawned thread runs: it takes each of its steps, and its comparison
\* terminates (WorkerCompare is enabled exactly at at_compare and leaves it)
SpecRaceLive ==
  /\ InitRace
  /\ [][NextRace]_vars
  /\ WF_vars(Tick)
  /\ WF_vars(\E w \in 1..Len(workers) : WorkerBegin(w))
  /\ WF_vars(\E w \in 1..Len(workers), io_ok \in BOOLEAN : WorkerScanLeft(w, io_ok))
  /\ WF_vars(\E w \in 1..Len(workers), io_ok \in BOOLEAN : WorkerScanRight(w, io_ok))
  /\ WF_vars(\E w \in 1..Len(workers) : WorkerSend(w))
  /\ []<>~(\E w \in 1..Len(workers) : at_compare(w))

\* C31: every started refresh ends: when the thread's scan and comparison
\* terminate and the loop keeps polling, is_refreshing, once set by
\* start_refresh, becomes false again by a consumed Complete or Error.
C31_RefreshEnds == app.is_refreshing ~> ~app.is_refreshing

\* a second refresh could start: the first one has ended and F5 spawned
\* another thread
C31_Witness == app.spawned = 2 /\ ~app.is_refreshing /\ ~app.refresh_rx

\* ------------------------------------------------------------------------
\* Alignment of the two lists
\* ------------------------------------------------------------------------
\* rows at equal index agree on relative path, is-directory flag and status
rows_aligned(left_rows, right_rows) ==
  /\ Len(left_rows) = Len(right_rows)
  /\ \A i \in 1..Len(left_rows) :
       /\ left_rows[i].path = right_rows[i].path
       /\ left_rows[i].is_dir = right_rows[i].is_dir
       /\ left_rows[i].status = right_rows[i].status

\* C32: in every reachable state and under every filter mode the two
\* flattened lists have the same length and the rows at equal index have the
\* same relative path, is-directory flag and status, after any sequence of
\* toggles, expand/collapse all, filter changes, swaps, refreshes and
\* reconciliations.
C32_ListsAligned ==
  /\ rows_aligned(app.left_items, app.right_items)
  /\ \A filter \in FilterModes :
       rows_aligned(flatten_tree_with_filter(app.comparison.left_tree, 0, filter),
                    flatten_tree_with_filter(app.comparison.right_tree, 0, filter))

\* ------------------------------------------------------------------------
\* Validity of the selections
\* ------------------------------------------------------------------------
\* C33: in every reachable state each panel's selection, when present, is a
\* valid row index, smaller than the length of that panel's flattened list;
\* filter changes, collapse_all, toggle_folder, swap_panels and a completed
\* refresh started with F5 preserve this.
C33_SelectionValid ==
  /\ app.left_list_state # NoneVal => app.left_list_state < Len(app.left_items)
  /\ app.right_list_state # NoneVal => app.right_list_state < Len(app.right_items)

\* ------------------------------------------------------------------------
\* Source of a copy
\* ------------------------------------------------------------------------
\* the row of a placeholder shows its indentation only
blank_row(row) == \A k \in 1..Len(row.display_name) : row.display_name[k] = 32

\* the source path of the CopyInfo prepare_copy builds: [dir, rel]
copy_source(a) == prepare_copy(a, fs).copy_info[1].source_path

\* C34: whenever can_copy() is true the selected row is a real entry of the
\* active panel's side: it is not a placeholder and it exists under the
\* active panel's root directory, so the source path of the CopyInfo built
\* by prepare_copy exists (no other process having changed the directories);
\* at every depth, and also after swap_panels.
C34_CopySourceExists ==
  (can_copy(app) /\ fs_changes = 0)
    => /\ ~blank_row(get_selected_item(app)[1])
       /\ EntryAt(fs[copy_source(app).dir], copy_source(app).rel).kind # "none"

\* ------------------------------------------------------------------------
\* Lifetime of the saved state
\* ------------------------------------------------------------------------
\* something captured by save_current_state is still held
has_saved_state(a) ==
  \/ a.saved_expansion_state # <<>>
  \/ a.saved_filter_mode # <<>>
  \/ a.saved_left_selection # NoneVal
  \/ a.saved_right_selection # NoneVal

\* C35: the state captured by execute_copy (saved selections, active panel,
\* filter mode, tree copies) is held only while the refresh triggered by that
\* copy is running: after a failed copy or a refresh that ended with Error no
\* saved state remains, so a later unrelated refresh restores nothing stale.
C35_SavedStateOnlyDuringRefresh ==
  has_saved_state(app) => (app.is_refreshing /\ app.copy_info = <<>>)

\* ------------------------------------------------------------------------
\* Swap during a refresh
\* ------------------------------------------------------------------------
\* this step of the loop consumes a Complete message
ConsumesComplete ==
  /\ Tick
  /\ app.is_refreshing
  /\ ~app'.is_refreshing
  /\ app'.refresh_progress = ProgressText("", 0, 0)

\* C36: a panel swap is not lost to a concurrent refresh: when swap_panels
\* ran while a refresh was in flight, after the Complete message is consumed
\* the left root and the left tree still belong to the directory that was on
\* the left immediately before (and the same on the right).
C36_SwapSurvivesRefresh ==
  [][ConsumesComplete
       => /\ app'.comparison.left_dir = app.comparison.left_dir
          /\ app'.comparison.right_dir = app.comparison.right_dir
          /\ app'.comparison.left_tree.path = app.comparison.left_dir
          /\ app'.comparison.right_tree.path = app.comparison.right_dir]_vars

\* ------------------------------------------------------------------------
\* Children of files
\* ------------------------------------------------------------------------
\* no file node of the tree has children
only_dirs_have_children(tree) ==
  \A n \in {tree} \cup nodes_below(tree) : ~n.is_dir => n.children = <<>>

\* the paths of the rows of a tree with all directories expanded, under All
expanded_row_paths(a, left) ==
  LET tree == IF left THEN expand_all(a).comparison.left_tree
              ELSE expand_all(a).comparison.right_tree
      rows == flatten_tree_with_filter(tree, 0, "All")
  IN {lossy_path(rows[i].path) : i \in 1..Len(rows)}

\* C37: in every built snapshot only directory nodes have children, also
\* for a path that is a file on one side and a directory with entries on the
\* other; hence every scanned path is a row once all directories are
\* expanded under the All filter.
C37_OnlyDirsHaveChildren ==
  /\ only_dirs_have_children(app.comparison.left_tree)
  /\ only_dirs_have_children(app.comparison.right_tree)
  /\ \A p \in scanned_paths :
       /\ lossy_path(p) \in expanded_row_paths(app, TRUE)
       /\ lossy_path(p) \in expanded_row_paths(app, FALSE)

\* ------------------------------------------------------------------------
\* SpecDeep: the build pipeline on directories three levels deep
\* ------------------------------------------------------------------------
\* c, c/a, c/a/z and c/b
DeepPaths == {<<99>>, <<99, 97>>, <<99, 97, 122>>, <<99, 98>>}

\* c and c/a may be directories or files, the other two are files
DeepTrees ==
  {t \in [DeepPaths -> BuildEntries] :
     /\ WellFormed(t)
     /\ t[<<99>>] # SmallFile(2)
     /\ t[<<99, 97, 122>>] \in {NoEntry, SmallFile(1)}
     /\ t[<<99, 98>>] \in {NoEntry, SmallFile(1)}}

InitDeep == \E l \in DeepTrees, r \in DeepTrees : Started(TwoTrees(l, r))

SpecDeep == InitDeep /\ [][NextBuild]_vars

\* ------------------------------------------------------------------------
\* Filters and ancestors
\* ------------------------------------------------------------------------
\* every directory below the root passes the filter when a node below it does
ancestors_pass(tree, filter) ==
  \A n \in nodes_below(tree) :
    n.is_dir => \A m \in nodes_below(n) : should_include(m, filter) => should_include(n, filter)

\* C38: under the Different and DifferentNotOrphans filters a visible row is
\* never orphaned from its parents: if a node passes the filter, every
\* non-root ancestor directory of it passes the same filter.
C38_AncestorsPassFilter ==
  \A filter \in {"Different", "DifferentNotOrphans"} :
    /\ ancestors_pass(app.comparison.left_tree, filter)
    /\ ancestors_pass(app.comparison.right_tree, filter)

\* ------------------------------------------------------------------------
\* Same directories
\* ------------------------------------------------------------------------
\* a directory of the tree is Same exactly when every node below it is
same_iff_all_below(tree) ==
  \A n \in {tree} \cup nodes_below(tree) :
    n.is_dir => (n.status = "Same" <=> \A m \in nodes_below(n) : m.status = "Same")

\* C39: after propagation a directory, the root included, has status Same if
\* and only if every node below it has status Same: any Different, LeftOnly
\* or RightOnly node makes every one of its ancestors non-Same.
C39_SameIffAllBelowSame ==
  /\ same_iff_all_below(app.comparison.left_tree)
  /\ same_iff_all_below(app.comparison.right_tree)

====
